---- MODULE Spec2Model ----
(***************************************************************************)
(* The extension manager list model (ListModel) of                         *)
(* packages/extensionmanager/src/model.ts: reconciliation passes           *)
(* (update), server actions (_performAction), the companion gate, build    *)
(* checks and the pending-action list.                                     *)
(*                                                                         *)
(* One action of the model is one turn of the JavaScript event loop: a     *)
(* public method call, or the arrival of a network reply, together with    *)
(* every promise reaction (microtask) that the call or the reply runs      *)
(* before the loop takes the next event.                                   *)
(***************************************************************************)
EXTENDS Integers, Sequences, FiniteSets, TLC

(***************************************************************************)
(* Bounds of the model.                                                    *)
(***************************************************************************)
\* Number of asynchronous tasks (passes, POSTs, gates, builds) ever started.
MaxTasks == 2
\* Longest list a registry search or the installed query returns.
MaxLen == 3

(***************************************************************************)
(* Values.                                                                 *)
(***************************************************************************)
\* JavaScript null of a string | null slot (query and the error slots).
Null == "<null>"
\* JavaScript undefined, e.g. the message of a reply that carries none.
Undefined == "<undefined>"

\* Package names the two upstream channels talk about.
NameA == "@jupyterlab/a"
NameB == "@jupyterlab/b"
NameX == "x"
NameY == "y"

\* Names of the whitelisted organisations: isJupyterOrg of query.ts.
TrustedNames == {NameA, NameB}
isJupyterOrg(name) == name \in TrustedNames

\* Total order of strings, used only by the comparator with a name key.
NameRank(name) ==
  CASE name = NameA -> 1
    [] name = NameB -> 2
    [] name = NameX -> 3
    [] OTHER -> 4

(***************************************************************************)
(* Wire formats of the two channels.                                       *)
(***************************************************************************)
\* IInstalledEntry records the server may list.  The installed field is
\* optional on the wire: WireA omits it.
WireA ==
  [name |-> NameA, description |-> "a on server", url |-> "srv/a",
   enabled |-> TRUE, latest_version |-> "2.0.0",
   installed_version |-> "1.0.0", status |-> "ok"]
WireX ==
  [name |-> NameX, description |-> "x on server", url |-> "srv/x",
   installed |-> TRUE, enabled |-> FALSE, latest_version |-> "1.0.0",
   installed_version |-> "1.0.0", status |-> "warning"]
WireY ==
  [name |-> NameY, description |-> "y on server", url |-> "srv/y",
   installed |-> FALSE, enabled |-> FALSE, latest_version |-> "1.0.0",
   installed_version |-> "", status |-> Null]
\* A second record for x, as a server listing x twice would send.
WireX2 ==
  [name |-> NameX, description |-> "x again", url |-> "srv/x2",
   installed |-> TRUE, enabled |-> TRUE, latest_version |-> "2.0.0",
   installed_version |-> "2.0.0", status |-> "ok"]
\* A record the IInstalledEntry type allows as well: not installed, yet
\* enabled and with an installed version.
WireY2 ==
  [name |-> NameY, description |-> "y, removed", url |-> "srv/y",
   installed |-> FALSE, enabled |-> TRUE, latest_version |-> "1.0.0",
   installed_version |-> "1.0.0", status |-> "warning"]
InstalledPkgs == {WireA, WireX, WireY, WireX2}

\* Packages of the npm registry (ISearchResult objects[i].package).
PkgA ==
  [name |-> NameA, description |-> "a on npm", version |-> "2.0.0",
   keywords |-> <<"jupyterlab-extension">>,
   links |-> [homepage |-> "home/a", repository |-> "repo/a",
              npm |-> "npm/a"]]
PkgB ==
  [name |-> NameB, description |-> "b on npm", version |-> "1.0.0",
   keywords |-> <<"jupyterlab-extension">>,
   links |-> [repository |-> "repo/b", npm |-> "npm/b"]]
PkgX ==
  [name |-> NameX, description |-> "x on npm", version |-> "3.0.0",
   keywords |-> <<>>,
   links |-> [npm |-> "npm/x"]]
PkgY ==
  [name |-> NameY, description |-> "y on npm", version |-> "1.0.0",
   keywords |-> <<"jupyterlab-extension", "deprecated">>,
   links |-> [npm |-> "npm/y"]]
SearchPkgs == {PkgA, PkgB, PkgX, PkgY}

\* Sequences over S of length at most n.
RECURSIVE SeqsUpTo(_, _)
SeqsUpTo(S, n) ==
  IF n = 0 THEN {<<>>}
  ELSE LET shorter == SeqsUpTo(S, n - 1)
       IN shorter \cup {Append(s, e) : s \in {t \in shorter : Len(t) = n - 1}, e \in S}

\* Bodies the installed-extension endpoint can answer with.
InstalledBodies == SeqsUpTo(InstalledPkgs, MaxLen)
\* Object lists a registry search can answer with.
SearchObjects == SeqsUpTo(SearchPkgs, MaxLen)

\* Bodies over every record above, WireY2 included.
WireBodies == SeqsUpTo(InstalledPkgs \cup {WireY2}, MaxLen - 1)

\* The bodies and object lists used where passes, actions and builds
\* interleave: a package known to both channels (a), one that only the
\* registry knows (b), and one that only the server knows (x).
FewInstalledBodies == {<<WireX, WireA>>}
FewSearchObjects == {<<PkgB, PkgA>>}

(***************************************************************************)
(* Entry maps.  A JavaScript object used as a map enumerates its (non      *)
(* numeric) string keys in insertion order, so a map is the sequence of    *)
(* its entries in key order; assigning to a present key replaces the       *)
(* value and keeps the key's position.                                     *)
(***************************************************************************)
Keys(m) == {m[i].name : i \in 1..Len(m)}

MapHas(m, key) == key \in Keys(m)

MapGet(m, key) == m[CHOOSE i \in 1..Len(m) : m[i].name = key]

\* An assignment that adds a second entry for a key that is present.
MapPush(m, entry) == Append(m, entry)

MapSet(m, entry) ==
  IF MapHas(m, entry.name)
    THEN [i \in 1..Len(m) |-> IF m[i].name = entry.name THEN entry ELSE m[i]]
    ELSE Append(m, entry)

Contains(seq, e) == \E i \in 1..Len(seq) : seq[i] = e

(***************************************************************************)
(* Translation of the replies into entry maps.                             *)
(***************************************************************************)
\* The url of a registry package: homepage, else repository, else npm.
PkgUrl(links) ==
  IF "homepage" \in DOMAIN links THEN links.homepage
  ELSE IF "repository" \in DOMAIN links THEN links.repository
  ELSE links.npm

SearchEntry(pkg) ==
  [name |-> pkg.name, description |-> pkg.description,
   url |-> PkgUrl(pkg.links), installed |-> FALSE, enabled |-> FALSE,
   status |-> Null, latest_version |-> pkg.version,
   installed_version |-> ""]

\* A filter that lets every package through.
IsDeprecatedNever(pkg) == FALSE

\* pkg.keywords.indexOf('deprecated') >= 0
IsDeprecated(pkg) == Contains(pkg.keywords, "deprecated")

\* translateSearchResult: packages with the keyword "deprecated" are skipped.
RECURSIVE translateSearchResult(_)
translateSearchResult(objects) ==
  IF objects = <<>> THEN <<>>
  ELSE LET n == Len(objects)
           entries == translateSearchResult(SubSeq(objects, 1, n - 1))
           pkg == objects[n]
       IN IF IsDeprecated(pkg)
            THEN entries
            ELSE MapSet(entries, SearchEntry(pkg))

\* pkg.installed !== false: an absent field counts as installed.
InstalledEntry(pkg) ==
  [name |-> pkg.name, description |-> pkg.description, url |-> pkg.url,
   installed |-> IF "installed" \in DOMAIN pkg THEN pkg.installed ELSE TRUE,
   enabled |-> pkg.enabled, status |-> pkg.status,
   latest_version |-> pkg.latest_version,
   installed_version |-> pkg.installed_version]

RECURSIVE translateInstalled(_)
translateInstalled(body) ==
  IF body = <<>> THEN <<>>
  ELSE LET n == Len(body)
       IN MapSet(translateInstalled(SubSeq(body, 1, n - 1)),
                 InstalledEntry(body[n]))

(***************************************************************************)
(* ListModel.entryHasUpdate, and semver.lt on versions major.minor.patch.  *)
(***************************************************************************)
DigitOf(c) == CHOOSE d \in 0..9 : ToString(d) = c

IsDigit(c) == \E d \in 0..9 : ToString(d) = c

\* The numbers between the dots of a version, read from position i on.
RECURSIVE ParseFrom(_, _, _, _)
ParseFrom(version, i, current, parts) ==
  IF i > Len(version) THEN Append(parts, current)
  ELSE LET c == SubSeq(version, i, i)
       IN IF c = "."
            THEN ParseFrom(version, i + 1, 0, Append(parts, current))
            ELSE ParseFrom(version, i + 1, current * 10 + DigitOf(c), parts)

\* A version semver accepts: three numbers separated by dots.
ValidVersion(version) ==
  /\ version # ""
  /\ \A i \in 1..Len(version) :
       IsDigit(SubSeq(version, i, i)) \/ SubSeq(version, i, i) = "."
  /\ \A i \in 1..Len(version) :
       SubSeq(version, i, i) = "." =>
         /\ i > 1
         /\ i < Len(version)
         /\ SubSeq(version, i + 1, i + 1) # "."
  /\ Len(ParseFrom(version, 1, 0, <<>>)) = 3

\* A comparison that counts equal versions as lower.
semverLte(a, b) ==
  LET x == ParseFrom(a, 1, 0, <<>>)
      y == ParseFrom(b, 1, 0, <<>>)
  IN \/ x[1] < y[1]
     \/ x[1] = y[1] /\ x[2] < y[2]
     \/ x[1] = y[1] /\ x[2] = y[2] /\ x[3] <= y[3]

\* semver.lt(a, b) of two valid versions: major, then minor, then patch,
\* compared as numbers.
semverLt(a, b) ==
  LET x == ParseFrom(a, 1, 0, <<>>)
      y == ParseFrom(b, 1, 0, <<>>)
  IN \/ x[1] < y[1]
     \/ x[1] = y[1] /\ x[2] < y[2]
     \/ x[1] = y[1] /\ x[2] = y[2] /\ x[3] < y[3]

\* semver.lt throws a TypeError for a version it cannot parse; the call
\* is reached for an installed entry with a latest version only.
entryHasUpdateThrows(entry) ==
  /\ entry.installed
  /\ entry.latest_version # ""
  /\ \/ ~ValidVersion(entry.installed_version)
     \/ ~ValidVersion(entry.latest_version)

\* ListModel.entryHasUpdate, where it returns.
entryHasUpdate(entry) ==
  IF ~entry.installed \/ entry.latest_version = "" THEN FALSE
  ELSE semverLt(entry.installed_version, entry.latest_version)

(***************************************************************************)
(* Ordering of the views.                                                  *)
(***************************************************************************)
\* A comparator with the name as a secondary key.
comparatorByName(a, b) ==
  IF a.name = b.name THEN 0
  ELSE IF isJupyterOrg(a.name) # isJupyterOrg(b.name)
    THEN (IF isJupyterOrg(a.name) THEN -1 ELSE 1)
  ELSE IF NameRank(a.name) < NameRank(b.name) THEN -1 ELSE 1

\* A comparator with the two trust classes swapped.
comparatorSwapped(a, b) ==
  IF a.name = b.name THEN 0
  ELSE IF isJupyterOrg(a.name) = isJupyterOrg(b.name) THEN 0
  ELSE IF isJupyterOrg(a.name) /\ ~isJupyterOrg(b.name) THEN 1
  ELSE -1

\* Private.comparator: whitelisted organisations first, otherwise a tie.
comparator(a, b) ==
  IF a.name = b.name THEN 0
  ELSE LET testA == isJupyterOrg(a.name)
           testB == isJupyterOrg(b.name)
       IN IF testA = testB THEN 0
          ELSE IF testA /\ ~testB THEN -1
          ELSE 1

\* Array.prototype.sort(comparator).  The sort is stable (ECMAScript 2019,
\* and every engine for arrays of up to ten elements before that): an
\* element goes in front of the first one that compares greater than it.
InsertSorted(sorted, e) ==
  LET after == {i \in 1..Len(sorted) : comparator(sorted[i], e) > 0}
      pos == IF after = {} THEN Len(sorted) + 1
             ELSE CHOOSE i \in after : \A j \in after : i <= j
  IN SubSeq(sorted, 1, pos - 1) \o <<e>> \o SubSeq(sorted, pos, Len(sorted))

RECURSIVE Sort(_)
Sort(arr) ==
  IF arr = <<>> THEN <<>>
  ELSE InsertSorted(Sort(SubSeq(arr, 1, Len(arr) - 1)), arr[Len(arr)])

\* The view of the installed extensions: the values of the installed map.
InstalledView(installedMap) == Sort(installedMap)

\* A merge that keeps the registry entry of an installed package.
MergeKeepingSearch(searchMap, installedMap) == searchMap

\* The merged search result, before sorting: an installed package is shown
\* by its installed entry.
Merge(searchMap, installedMap) ==
  [i \in 1..Len(searchMap) |->
     IF ~MapHas(installedMap, searchMap[i].name)
       THEN searchMap[i]
       ELSE MapGet(installedMap, searchMap[i].name)]

SearchView(searchMap, installedMap) == Sort(Merge(searchMap, installedMap))

(***************************************************************************)
(* Replies of the collaborators.                                           *)
(***************************************************************************)
\* An error that carries the status code alone.
HttpReasonStatusOnly(status, statusText) == "Error: " \o ToString(status)

\* Error.prototype.toString of the error Private.handleError throws.
HttpReason(status, statusText) ==
  "Error: " \o ToString(status) \o " (" \o statusText \o ")"

NetworkReason == "TypeError: Failed to fetch"
TranslateReason == "TypeError: Cannot read property of undefined"

\* Replies of searcher.searchExtensions: a page of objects with a total, a
\* rejection, or a page the translation chokes on (its total is readable).
SearchReplies(objectLists) ==
  {[kind |-> "ok", objects |-> o, total |-> Len(o) + 1] : o \in objectLists}
  \cup {[kind |-> "reject", reason |-> NetworkReason]}
  \cup {[kind |-> "malformed", reason |-> TranslateReason, total |-> 1]}

\* Replies to the GET of the installed extensions: a 2xx reply with a list,
\* a non-2xx reply, or a 2xx reply whose body is no list of entries.
InstalledReplies(bodies) ==
  {[kind |-> "ok", body |-> b] : b \in bodies}
  \cup {[kind |-> "http", reason |-> HttpReason(500, "Internal Server Error")]}
  \cup {[kind |-> "malformed", reason |-> TranslateReason]}

(***************************************************************************)
(* State.                                                                  *)
(***************************************************************************)
VARIABLES
  query,                 \* _query
  page,                  \* _page
  pagination,            \* _pagination
  totalEntries,          \* _totalEntries
  installed,             \* _installed
  searchResult,          \* _searchResult
  installedError,
  searchError,
  serverConnectionError,
  initialized,
  promptBuild,
  pendingActions,        \* _pendingActions: the handles, in push order
  builderAvailable,      \* serviceManager.builder.isAvailable
  passes,                \* update() invocations that have not published
  posts,                 \* action POSTs that have not settled
  gates,                 \* checkCompanionPackages calls that have not settled
  builds,                \* build checks and builds that have not settled
  nextId,                \* the handle the next task gets
  installedBy,           \* the pass that wrote installed (0: constructor)
  searchResultBy,        \* the pass that wrote searchResult (0: constructor)
  published,             \* the pass that completed last, and its two maps
  step,                  \* the event loop turn that led to this state
  statusItems,           \* StatusBar._statusItems: key -> widget
  widgets,               \* each Widget's isAttached and isDisposed
  disposables,           \* the handles registerStatusItem has returned
  isDisposed,            \* StatusBar.isDisposed
  barStep,               \* the call on the status bar that led here
  lastTotal,             \* the total of the last search that was answered
  timers,                \* the interval timers that are set and not cleared
  intervalId,            \* MemoryUsage.Model._intervalId
  metricsAvailable,      \* _metricsAvailable
  currentMemory,         \* _currentMemory
  memoryLimit,           \* _memoryLimit (NoLimit: null)
  units,                 \* _units
  requests,              \* the metric requests that have not settled
  modelDisposed,         \* MemoryUsage.Model.isDisposed
  nextTimer,             \* the id the next setInterval returns
  memStep                \* the turn of the memory usage model that led here

vars ==
  <<query, page, pagination, totalEntries, installed, searchResult,
    installedError, searchError, serverConnectionError, initialized,
    promptBuild, pendingActions, builderAvailable, passes, posts, gates,
    builds, nextId, installedBy, searchResultBy, published, step,
    statusItems, widgets, disposables, isDisposed, barStep, lastTotal,
    timers, intervalId, metricsAvailable, currentMemory, memoryLimit, units,
    requests, modelDisposed, nextTimer, memStep>>

\* The state of the list model, which the status bar never touches.
listVars ==
  <<query, page, pagination, totalEntries, installed, searchResult,
    installedError, searchError, serverConnectionError, initialized,
    promptBuild, pendingActions, builderAvailable, passes, posts, gates,
    builds, nextId, installedBy, searchResultBy, published, step,
    lastTotal>>

\* The state of the status bar, which the list model never touches.
barVars == <<statusItems, widgets, disposables, isDisposed, barStep>>

\* The state of the memory usage model, which neither of the two touches.
memVars ==
  <<timers, intervalId, metricsAvailable, currentMemory, memoryLimit, units,
    requests, modelDisposed, nextTimer, memStep>>

\* The fields of the model an observer can read.
modelFields ==
  <<query, page, pagination, totalEntries, installed, searchResult,
    installedError, searchError, serverConnectionError, initialized,
    promptBuild, pendingActions>>

\* The requests and dialogs in flight.
inFlight == <<passes, posts, gates, builds, nextId>>

Queries == {Null, "lab"}
Pages == {0, 1}
Paginations == {250, 10}

\* A turn of the event loop: what ran, how many stateChanged signals it
\* emitted, whether the call threw to its caller, and whether
\* reportInstallError was called.
Step(kind, emitted, raised, reported) ==
  [kind |-> kind, emitted |-> emitted, raised |-> raised,
   reported |-> reported]

Put(f, id, rec) == [i \in DOMAIN f \cup {id} |-> IF i = id THEN rec ELSE f[i]]

Drop(f, id) == [i \in DOMAIN f \ {id} |-> f[i]]

Empty == [i \in {} |-> 0]

CanStart(n) == nextId + n - 1 <= MaxTasks

hasPendingActions == Len(pendingActions) > 0

\* The interval timers a memory usage model sets, and the metric requests
\* it has in flight at a time.
MaxTimers == 3
MaxRequests == 2

\* _memoryLimit when the server reports no limit (null); a limit of 0 is
\* taken for none as well.
NoLimit == 0

MemStep(kind, emitted, afterDispose) ==
  [kind |-> kind, emitted |-> emitted, afterDispose |-> afterDispose]

\* The widgets a test creates, and the keys it registers them under.
MaxWidgets == 3
Widgets == 1..MaxWidgets
ItemKeys == {"item", "item1", "item2"}

\* new Widget(): neither attached nor disposed.
NewWidget == [isAttached |-> FALSE, isDisposed |-> FALSE]

\* A call on the status bar: the method, its arguments (the key and the
\* widget of a registration, the handle of a disposal), whether it threw,
\* and whether the bar was disposed when it was made.
BarStep(op, id, item, handle, raised, wasDisposed) ==
  [op |-> op, id |-> id, item |-> item, handle |-> handle,
   raised |-> raised, wasDisposed |-> wasDisposed]

\* A removal by pop(): the handle pushed last, whoever settles.
RemoveLast(pending, id) ==
  IF pending = <<>> THEN pending ELSE SubSeq(pending, 1, Len(pending) - 1)

\* A removal by splice(i): the handle and every handle pushed after it.
RemoveFrom(pending, id) ==
  LET found == {i \in 1..Len(pending) : pending[i] = id}
      i == IF found = {} THEN Len(pending)
           ELSE CHOOSE k \in found : \A j \in found : k <= j
  IN IF pending = <<>> THEN pending ELSE SubSeq(pending, 1, i - 1)

\* The remove callback of _addPendingAction: indexOf, then splice(i, 1).
\* indexOf gives -1 for a missing handle, and splice(-1, 1) removes the
\* last element.
Remove(pending, id) ==
  LET found == {i \in 1..Len(pending) : pending[i] = id}
      i == IF found = {} THEN Len(pending)
           ELSE CHOOSE k \in found : \A j \in found : k <= j
  IN IF pending = <<>> THEN pending
     ELSE SubSeq(pending, 1, i - 1) \o SubSeq(pending, i + 1, Len(pending))

Init ==
  /\ query = Null
  /\ page = 0
  /\ pagination = 250
  /\ totalEntries = 0
  /\ installed = <<>>
  /\ searchResult = <<>>
  /\ installedError = Null
  /\ searchError = Null
  /\ serverConnectionError = Null
  /\ initialized = FALSE
  /\ promptBuild = FALSE
  /\ pendingActions = <<>>
  /\ builderAvailable \in BOOLEAN
  /\ passes = Empty
  /\ posts = Empty
  /\ gates = Empty
  /\ builds = Empty
  /\ nextId = 1
  /\ installedBy = 0
  /\ searchResultBy = 0
  /\ published = [id |-> 0, origin |-> "constructor", query |-> Null,
                  objects |-> <<>>, searchMap |-> <<>>,
                  installedMap |-> <<>>]
  /\ step = Step("constructor", 0, FALSE, FALSE)
  /\ statusItems = Empty
  /\ widgets = [w \in Widgets |-> NewWidget]
  /\ disposables = <<>>
  /\ isDisposed = FALSE
  /\ barStep = BarStep("constructor", "", 0, 0, FALSE, FALSE)
  /\ lastTotal = 0
  /\ timers = {1}
  /\ intervalId = 1
  /\ metricsAvailable = FALSE
  /\ currentMemory = 0
  /\ memoryLimit = NoLimit
  /\ units = "B"
  /\ requests = 0
  /\ modelDisposed = FALSE
  /\ nextTimer = 2
  /\ memStep = MemStep("constructor", 0, FALSE)

(***************************************************************************)
(* The reconciliation pass: update().                                      *)
(***************************************************************************)
\* performSearch() up to its first await.  With a null query it clears the
\* search fields at once and returns; otherwise it issues the search.
performSearchStart(id, q) ==
  IF q = Null
    THEN /\ searchResult' = <<>>
         /\ searchResultBy' = id
         /\ totalEntries' = 0
         /\ searchError' = Null
    ELSE UNCHANGED <<searchResult, searchResultBy, totalEntries, searchError>>

\* The server API path for querying and modifying installed extensions.
EXTENSION_API_PATH == "lab/api/extensions"

\* A GET that never asks the server to refresh.
InstalledUrlPlain(refreshInstalled) == "/" \o EXTENSION_API_PATH

\* The url of the GET of fetchInstalled(refreshInstalled), after the base
\* url: the API path, with the search parameter refresh=1 on demand.
InstalledUrl(refreshInstalled) ==
  "/" \o EXTENSION_API_PATH
      \o (IF refreshInstalled THEN "?refresh=1" ELSE "")

\* An update() that does nothing while another pass is in flight.
UpdateStartWhenIdle(id, origin, refreshInstalled, q, pg, pgn) ==
  IF DOMAIN passes = {}
    THEN /\ passes' = Put(passes, id,
              [origin |-> origin, refresh |-> refreshInstalled,
               url |-> InstalledUrl(refreshInstalled),
               search |-> IF q = Null THEN "skipped" ELSE "sent",
               query |-> q, page |-> pg, pagination |-> pgn,
               objects |-> <<>>, searchMap |-> <<>>,
               installedQuery |-> "sent", installedMap |-> <<>>])
         /\ UNCHANGED published
         /\ performSearchStart(id, q)
    ELSE UNCHANGED <<passes, published, searchResult, searchResultBy,
                     totalEntries, searchError>>

\* An update() that reads the query state as it was before the setter that
\* called it assigned its value.
UpdateStartBeforeAssignment(id, origin, refreshInstalled, q, pg, pgn) ==
  /\ passes' = Put(passes, id,
       [origin |-> origin, refresh |-> refreshInstalled,
        url |-> InstalledUrl(refreshInstalled),
        search |-> IF query = Null THEN "skipped" ELSE "sent",
        query |-> query, page |-> page, pagination |-> pagination,
        objects |-> <<>>, searchMap |-> <<>>,
        installedQuery |-> "sent", installedMap |-> <<>>])
  /\ UNCHANGED published
  /\ performSearchStart(id, query)

\* The synchronous part of update(refreshInstalled), called with the query
\* state q, pg, pgn: performSearch up to its first await, then
\* queryInstalled up to the GET.  With a null query performSearch writes
\* the search fields at once and no search is issued.
UpdateStart(id, origin, refreshInstalled, q, pg, pgn) ==
  /\ passes' = Put(passes, id,
       [origin |-> origin, refresh |-> refreshInstalled,
               url |-> InstalledUrl(refreshInstalled),
        search |-> IF q = Null THEN "skipped" ELSE "sent",
        query |-> q, page |-> pg, pagination |-> pgn,
        objects |-> <<>>, searchMap |-> <<>>,
        installedQuery |-> "sent", installedMap |-> <<>>])
  /\ UNCHANGED published
  /\ performSearchStart(id, q)

\* What a turn that does not call update() leaves alone.
NoUpdate ==
  UNCHANGED <<passes, searchResult, searchResultBy, totalEntries, searchError,
              published>>

\* An initialize() that marks the model only when both channels succeeded.
InitializedOnSuccess(origin) ==
  IF origin = "initialize" /\ installedError' = Null /\ searchError' = Null
    THEN TRUE
    ELSE initialized

\* The reaction of initialize() on the promise of its update(): then and
\* catch both set initialized.  The promise of every other update() has no
\* such reaction.
InitializedAfter(origin) ==
  IF origin = "initialize" THEN TRUE ELSE initialized

\* A pass that signals each of its two views.
EmittedByPublishPerView(origin) ==
  2 + (IF origin \in {"initialize", "refreshInstalled"} THEN 1 ELSE 0)

\* The stateChanged signals of the turn in which update() completes: the
\* one of update() itself, and the one of the reaction on its promise: the
\* then/catch of initialize(), the remove of _addPendingAction for
\* refreshInstalled().
EmittedByPublish(origin) ==
  1 + (IF origin \in {"initialize", "refreshInstalled"} THEN 1 ELSE 0)

\* A completion that is dropped when a pass started later has published.
PublishUnlessStale(id, objects, searchMap, installedMap, kind) ==
  /\ passes' = Drop(passes, id)
  /\ pendingActions' =
       IF passes[id].origin = "refreshInstalled"
         THEN Remove(pendingActions, id)
         ELSE pendingActions
  /\ initialized' = InitializedAfter(passes[id].origin)
  /\ step' = Step(kind, EmittedByPublish(passes[id].origin), FALSE, FALSE)
  /\ UNCHANGED <<barVars, memVars>>
  /\ IF id < published.id
       THEN UNCHANGED <<installed, searchResult, installedBy,
                        searchResultBy, published>>
       ELSE /\ installed' = InstalledView(installedMap)
            /\ searchResult' = SearchView(searchMap, installedMap)
            /\ installedBy' = id
            /\ searchResultBy' = id
            /\ published' = [id |-> id, origin |-> passes[id].origin,
                             query |-> passes[id].query,
                             objects |-> objects, searchMap |-> searchMap,
                             installedMap |-> installedMap]

\* The rest of update() once both maps are there: both views are written
\* and stateChanged is emitted; then the reactions on the promise update()
\* returned run.  Gives the primed values of everything but the search
\* slots and the installed-channel slots.  objects is the object list the
\* registry answered the pass with (empty when it delivered none).
Publish(id, objects, searchMap, installedMap, kind) ==
  LET origin == passes[id].origin IN
  /\ installed' = InstalledView(installedMap)
  /\ searchResult' = SearchView(searchMap, installedMap)
  /\ installedBy' = id
  /\ searchResultBy' = id
  /\ published' = [id |-> id, origin |-> origin, query |-> passes[id].query,
                   objects |-> objects, searchMap |-> searchMap,
                   installedMap |-> installedMap]
  /\ passes' = Drop(passes, id)
  /\ initialized' = InitializedAfter(origin)
  /\ pendingActions' =
       IF origin = "refreshInstalled" THEN Remove(pendingActions, id)
       ELSE pendingActions
  /\ UNCHANGED <<barVars, memVars>>
  /\ step' = Step(kind, EmittedByPublish(origin), FALSE, FALSE)

\* A search that wipes the error slots of the server as well.
performSearchSettledWipingAll(reply) ==
  /\ searchError' = IF reply.kind = "ok" THEN Null ELSE reply.reason
  /\ totalEntries' = IF reply.kind = "reject" THEN 0 ELSE reply.total
  /\ lastTotal' = IF reply.kind = "reject" THEN lastTotal ELSE reply.total
  /\ installedError' = Null
  /\ serverConnectionError' = Null

\* A search whose rejection leaves totalEntries as it was.
performSearchSettledKeepingTotal(reply) ==
  /\ searchError' = IF reply.kind = "ok" THEN Null ELSE reply.reason
  /\ totalEntries' = IF reply.kind = "reject" THEN totalEntries
                     ELSE reply.total
  /\ lastTotal' = IF reply.kind = "reject" THEN lastTotal ELSE reply.total
  /\ UNCHANGED <<installedError, serverConnectionError>>

\* The rest of performSearch() once the search has settled: searchError
\* follows the translation, totalEntries the total of the reply (0 when
\* the search itself failed).  No other slot is written.  lastTotal keeps
\* the total of the last reply the registry gave.
performSearchSettled(reply) ==
  /\ searchError' = IF reply.kind = "ok" THEN Null ELSE reply.reason
  /\ totalEntries' = IF reply.kind = "reject" THEN 0 ELSE reply.total
  /\ lastTotal' = IF reply.kind = "reject" THEN lastTotal ELSE reply.total
  /\ UNCHANGED <<installedError, serverConnectionError>>

\* An installed query whose success leaves the error slots as they were.
queryInstalledSettledKeepingErrors(reply) ==
  /\ serverConnectionError' =
       IF reply.kind \in {"ok", "malformed"} THEN serverConnectionError
       ELSE reply.reason
  /\ installedError' = IF reply.kind = "ok" THEN installedError
                       ELSE reply.reason
  /\ UNCHANGED searchError

\* The reactions of fetchInstalled and the try/catch of queryInstalled
\* once the GET has settled: serverConnectionError follows the request,
\* installedError the translation.  No other slot is written.
queryInstalledSettled(reply) ==
  /\ serverConnectionError' =
       IF reply.kind \in {"ok", "malformed"} THEN Null ELSE reply.reason
  /\ installedError' = IF reply.kind = "ok" THEN Null ELSE reply.reason
  /\ UNCHANGED searchError

\* The reply of the registry arrives for pass id.
SearchDone(id, reply) ==
  /\ id \in DOMAIN passes
  /\ passes[id].search = "sent"
  /\ LET objects == IF reply.kind = "ok" THEN reply.objects ELSE <<>>
         searchMap == IF reply.kind = "ok"
                        THEN translateSearchResult(reply.objects)
                        ELSE <<>>
     IN /\ performSearchSettled(reply)
        /\ IF passes[id].installedQuery = "done"
             THEN Publish(id, objects, searchMap, passes[id].installedMap,
                          "searchDone")
             ELSE /\ passes' = [passes EXCEPT ![id].search = "done",
                                              ![id].objects = objects,
                                              ![id].searchMap = searchMap]
                  /\ UNCHANGED <<barVars, memVars>>
                  /\ step' = Step("searchDone", 0, FALSE, FALSE)
                  /\ UNCHANGED <<installed, searchResult, installedBy,
                                 searchResultBy, published, initialized,
                                 pendingActions>>
  /\ UNCHANGED <<query, page, pagination, promptBuild, builderAvailable,
                 posts, gates, builds, nextId>>

\* An installed query whose failure rejects the promise of update(): the
\* pass ends without writing the views.
InstalledDoneAborting(id, reply) ==
  /\ id \in DOMAIN passes
  /\ passes[id].installedQuery = "sent"
  /\ queryInstalledSettled(reply)
  /\ IF reply.kind # "ok"
       THEN /\ passes' = Drop(passes, id)
            /\ UNCHANGED <<barVars, memVars>>
            /\ step' = Step("installedDone", 0, TRUE, FALSE)
            /\ UNCHANGED <<installed, searchResult, installedBy,
                           searchResultBy, published, initialized,
                           pendingActions>>
       ELSE IF passes[id].search \in {"done", "skipped"}
         THEN Publish(id, passes[id].objects, passes[id].searchMap,
                      translateInstalled(reply.body), "installedDone")
         ELSE /\ passes' =
                   [passes EXCEPT ![id].installedQuery = "done",
                                  ![id].installedMap =
                                     translateInstalled(reply.body)]
              /\ UNCHANGED <<barVars, memVars>>
              /\ step' = Step("installedDone", 0, FALSE, FALSE)
              /\ UNCHANGED <<installed, searchResult, installedBy,
                             searchResultBy, published, initialized,
                             pendingActions>>
  /\ UNCHANGED <<query, page, pagination, totalEntries, promptBuild,
                 builderAvailable, posts, gates, builds, nextId, lastTotal>>

\* The reply of the server to the GET of pass id arrives (and its body).
InstalledDone(id, reply) ==
  /\ id \in DOMAIN passes
  /\ passes[id].installedQuery = "sent"
  /\ LET installedMap == IF reply.kind = "ok"
                           THEN translateInstalled(reply.body)
                           ELSE <<>>
     IN /\ queryInstalledSettled(reply)
        /\ IF passes[id].search \in {"done", "skipped"}
             THEN Publish(id, passes[id].objects, passes[id].searchMap,
                          installedMap, "installedDone")
             ELSE /\ passes' = [passes EXCEPT ![id].installedQuery = "done",
                                              ![id].installedMap = installedMap]
                  /\ UNCHANGED <<barVars, memVars>>
                  /\ step' = Step("installedDone", 0, FALSE, FALSE)
                  /\ UNCHANGED <<installed, searchResult, installedBy,
                                 searchResultBy, published, initialized,
                                 pendingActions>>
  /\ UNCHANGED <<query, page, pagination, totalEntries, promptBuild,
                 builderAvailable, posts, gates, builds, nextId, lastTotal>>

(***************************************************************************)
(* The setters and initialize().                                           *)
(***************************************************************************)
SetQuery(value) ==
  /\ CanStart(1)
  /\ query' = value
  /\ UpdateStart(nextId, "setter", FALSE, value, page, pagination)
  /\ nextId' = nextId + 1
  /\ UNCHANGED <<barVars, memVars>>
  /\ UNCHANGED lastTotal
  /\ step' = Step("setQuery", 0, FALSE, FALSE)
  /\ UNCHANGED <<page, pagination, installed, installedBy, installedError,
                 serverConnectionError, initialized, promptBuild,
                 pendingActions, builderAvailable, posts, gates, builds>>

SetPage(value) ==
  /\ CanStart(1)
  /\ page' = value
  /\ UpdateStart(nextId, "setter", FALSE, query, value, pagination)
  /\ nextId' = nextId + 1
  /\ UNCHANGED <<barVars, memVars>>
  /\ UNCHANGED lastTotal
  /\ step' = Step("setPage", 0, FALSE, FALSE)
  /\ UNCHANGED <<query, pagination, installed, installedBy, installedError,
                 serverConnectionError, initialized, promptBuild,
                 pendingActions, builderAvailable, posts, gates, builds>>

SetPagination(value) ==
  /\ CanStart(1)
  /\ pagination' = value
  /\ UpdateStart(nextId, "setter", FALSE, query, page, value)
  /\ nextId' = nextId + 1
  /\ UNCHANGED <<barVars, memVars>>
  /\ UNCHANGED lastTotal
  /\ step' = Step("setPagination", 0, FALSE, FALSE)
  /\ UNCHANGED <<query, page, installed, installedBy, installedError,
                 serverConnectionError, initialized, promptBuild,
                 pendingActions, builderAvailable, posts, gates, builds>>

Initialize ==
  /\ CanStart(1)
  /\ UpdateStart(nextId, "initialize", FALSE, query, page, pagination)
  /\ nextId' = nextId + 1
  /\ UNCHANGED <<barVars, memVars>>
  /\ UNCHANGED lastTotal
  /\ step' = Step("initialize", 0, FALSE, FALSE)
  /\ UNCHANGED <<query, page, pagination, installed, installedBy,
                 installedError, serverConnectionError, initialized,
                 promptBuild, pendingActions, builderAvailable, posts, gates,
                 builds>>

\* refreshInstalled(): update(true), tracked as a pending action.
RefreshInstalled ==
  /\ CanStart(1)
  /\ UpdateStart(nextId, "refreshInstalled", TRUE, query, page, pagination)
  /\ nextId' = nextId + 1
  /\ pendingActions' = Append(pendingActions, nextId)
  /\ UNCHANGED <<barVars, memVars>>
  /\ UNCHANGED lastTotal
  /\ step' = Step("refreshInstalled", 1, FALSE, FALSE)
  /\ UNCHANGED <<query, page, pagination, installed, installedBy,
                 installedError, serverConnectionError, initialized,
                 promptBuild, builderAvailable, posts, gates, builds>>

(***************************************************************************)
(* Build checks and builds.                                                *)
(***************************************************************************)
\* Replies of builder.getStatus(): a status, or a failure.
BuildStatuses == {"building", "needed", "stable", "failed"}

\* A check that ignores a prompt that is already up.
ChecksBuildIfAvailable == builderAvailable

\* Whether triggerBuildCheck() queries the build status at all.
ChecksBuild == builderAvailable /\ ~promptBuild

\* triggerBuildCheck() run inside a turn that has already pushed the handles
\* in pending: gives builds', promptBuild untouched, and the new pending list.
BuildCheckStarted(id) ==
  Put(builds, id, [kind |-> "check", phase |-> "status"])

TriggerBuildCheck ==
  /\ IF ChecksBuild
       THEN /\ CanStart(1)
            /\ builds' = BuildCheckStarted(nextId)
            /\ pendingActions' = Append(pendingActions, nextId)
            /\ nextId' = nextId + 1
            /\ UNCHANGED <<barVars, memVars>>
            /\ UNCHANGED lastTotal
            /\ step' = Step("triggerBuildCheck", 1, FALSE, FALSE)
       ELSE /\ UNCHANGED <<barVars, memVars>>
            /\ UNCHANGED lastTotal
            /\ step' = Step("triggerBuildCheck", 0, FALSE, FALSE)
            /\ UNCHANGED <<builds, pendingActions, nextId>>
  /\ NoUpdate
  /\ UNCHANGED <<query, page, pagination, installed, installedBy,
                 installedError, serverConnectionError, initialized,
                 promptBuild, builderAvailable, posts, gates>>

\* A check that never joins a build in progress.
PiggybacksNever(status) == FALSE

\* response.status === 'building': the check returns doBuild(builder).
Piggybacks(status) == status = "building"

\* The reply to getStatus() of build check id.
BuildStatus(id, status) ==
  /\ id \in DOMAIN builds
  /\ builds[id].phase = "status"
  /\ IF Piggybacks(status)
       THEN /\ builds' = [builds EXCEPT ![id].phase = "building"]
            /\ UNCHANGED <<barVars, memVars>>
            /\ UNCHANGED lastTotal
            /\ step' = Step("buildStatus", 0, FALSE, FALSE)
            /\ UNCHANGED <<promptBuild, pendingActions>>
       ELSE /\ builds' = Drop(builds, id)
            /\ promptBuild' = IF status = "needed" THEN TRUE ELSE promptBuild
            /\ pendingActions' = Remove(pendingActions, id)
            /\ UNCHANGED <<barVars, memVars>>
            /\ UNCHANGED lastTotal
            /\ step' = Step("buildStatus",
                            IF status = "needed" /\ ~promptBuild THEN 2 ELSE 1,
                            FALSE, FALSE)
  /\ NoUpdate
  /\ UNCHANGED <<query, page, pagination, installed, installedBy,
                 installedError, serverConnectionError, initialized,
                 builderAvailable, posts, gates, nextId>>

\* A removal that signals nothing.
BuildSettledSilently(id) ==
  /\ id \in DOMAIN builds
  /\ builds[id].phase = "building"
  /\ builds' = Drop(builds, id)
  /\ pendingActions' = Remove(pendingActions, id)
  /\ UNCHANGED <<barVars, memVars>>
  /\ UNCHANGED lastTotal
  /\ step' = Step("buildSettled", 0, FALSE, FALSE)
  /\ NoUpdate
  /\ UNCHANGED <<query, page, pagination, installed, installedBy,
                 installedError, serverConnectionError, initialized,
                 promptBuild, builderAvailable, posts, gates, nextId>>

\* The promise of doBuild settles, by success or by failure.
BuildSettled(id) ==
  /\ id \in DOMAIN builds
  /\ builds[id].phase = "building"
  /\ builds' = Drop(builds, id)
  /\ pendingActions' = Remove(pendingActions, id)
  /\ UNCHANGED <<barVars, memVars>>
  /\ UNCHANGED lastTotal
  /\ step' = Step("buildSettled", 1, FALSE, FALSE)
  /\ NoUpdate
  /\ UNCHANGED <<query, page, pagination, installed, installedBy,
                 installedError, serverConnectionError, initialized,
                 promptBuild, builderAvailable, posts, gates, nextId>>

\* A performBuild() that builds only when a build is recommended.
PerformBuildOnPrompt ==
  /\ CanStart(1)
  /\ promptBuild' = FALSE
  /\ IF promptBuild
       THEN /\ builds' = Put(builds, nextId,
                             [kind |-> "build", phase |-> "building"])
            /\ pendingActions' = Append(pendingActions, nextId)
            /\ nextId' = nextId + 1
            /\ UNCHANGED <<barVars, memVars>>
            /\ UNCHANGED lastTotal
            /\ step' = Step("performBuild", 2, FALSE, FALSE)
       ELSE /\ UNCHANGED <<barVars, memVars>>
            /\ UNCHANGED lastTotal
            /\ step' = Step("performBuild", 0, FALSE, FALSE)
            /\ UNCHANGED <<builds, pendingActions, nextId>>
  /\ NoUpdate
  /\ UNCHANGED <<query, page, pagination, installed, installedBy,
                 installedError, serverConnectionError, initialized,
                 builderAvailable, posts, gates>>

PerformBuild ==
  /\ CanStart(1)
  /\ promptBuild' = FALSE
  /\ builds' = Put(builds, nextId, [kind |-> "build", phase |-> "building"])
  /\ pendingActions' = Append(pendingActions, nextId)
  /\ nextId' = nextId + 1
  /\ UNCHANGED <<barVars, memVars>>
  /\ UNCHANGED lastTotal
  /\ step' = Step("performBuild", IF promptBuild THEN 2 ELSE 1,
                  FALSE, FALSE)
  /\ NoUpdate
  /\ UNCHANGED <<query, page, pagination, installed, installedBy,
                 installedError, serverConnectionError, initialized,
                 builderAvailable, posts, gates>>

\* An ignoreBuildRecommendation() that signals whether or not a prompt was
\* up.
IgnoreBuildRecommendationLoudly ==
  /\ promptBuild' = FALSE
  /\ UNCHANGED <<barVars, memVars>>
  /\ UNCHANGED lastTotal
  /\ step' = Step("ignoreBuildRecommendation", 1, FALSE, FALSE)
  /\ NoUpdate
  /\ UNCHANGED <<query, page, pagination, installed, installedBy,
                 installedError, serverConnectionError, initialized,
                 pendingActions, builderAvailable, posts, gates, builds,
                 nextId>>

IgnoreBuildRecommendation ==
  /\ promptBuild' = FALSE
  /\ UNCHANGED <<barVars, memVars>>
  /\ UNCHANGED lastTotal
  /\ step' = Step("ignoreBuildRecommendation",
                  IF promptBuild THEN 1 ELSE 0, FALSE, FALSE)
  /\ NoUpdate
  /\ UNCHANGED <<query, page, pagination, installed, installedBy,
                 installedError, serverConnectionError, initialized,
                 pendingActions, builderAvailable, posts, gates, builds,
                 nextId>>

(***************************************************************************)
(* Server actions: _performAction and its callers.                         *)
(***************************************************************************)
\* Entries a caller hands to install, uninstall, enable and disable.
CallEntries == {InstalledEntry(WireA), SearchEntry(PkgB)}

\* Replies to an action POST, as the response arrives: 2xx or not.
PostResponses ==
  {[ok |-> TRUE, reason |-> Null],
   [ok |-> FALSE, reason |-> HttpReason(500, "Internal Server Error")]}

\* The same, and a request that fails in transport: makeRequest rejects
\* and the callback that reads the response never runs.
PostOutcomes ==
  PostResponses \cup {[ok |-> FALSE, reason |-> NetworkReason]}

\* Bodies of a 2xx reply (IActionReply), or a body that does not parse.
ParseReason == "SyntaxError: Unexpected token < in JSON"
PostBodies ==
  {[parsed |-> TRUE, status |-> "ok", message |-> Undefined],
   [parsed |-> TRUE, status |-> "warning", message |-> "careful"],
   [parsed |-> TRUE, status |-> "error", message |-> "boom"],
   [parsed |-> TRUE, status |-> Null, message |-> Undefined],
   [parsed |-> FALSE, reason |-> ParseReason]}

\* An install that never asks the companion gate.
NeedsGateNever(entry) == FALSE

\* install(entry) runs checkCompanionPackages first unless the entry is
\* installed already (an upgrade).
NeedsGate(entry) == ~entry.installed

\* An action that is never refused.
PreconditionNever(cmd, entry) == FALSE

\* The precondition errors: what uninstall, enable and disable throw on.
PreconditionFails(cmd, entry) ==
  CASE cmd = "uninstall" -> ~entry.installed
    [] cmd = "enable" -> entry.enabled
    [] cmd = "disable" -> ~entry.enabled
    [] OTHER -> FALSE

\* _performAction(action, entry): the POST is sent and its promise is added
\* to the pending actions.
PerformAction(id, cmd, entry, gate) ==
  /\ posts' = Put(posts, id,
       [cmd |-> cmd, name |-> entry.name, installed |-> entry.installed,
        gate |-> gate, phase |-> "sent"])
  /\ pendingActions' = Append(pendingActions, id)

\* install(entry) of an installed entry, uninstall(entry), enable(entry),
\* disable(entry).
Act(cmd, entry) ==
  /\ ~(cmd = "install" /\ NeedsGate(entry))
  /\ IF PreconditionFails(cmd, entry)
       THEN /\ UNCHANGED <<barVars, memVars>>
            /\ UNCHANGED lastTotal
            /\ step' = Step(cmd, 0, TRUE, FALSE)
            /\ UNCHANGED <<posts, pendingActions, nextId>>
       ELSE /\ CanStart(1)
            /\ PerformAction(nextId, cmd, entry, 0)
            /\ nextId' = nextId + 1
            /\ UNCHANGED <<barVars, memVars>>
            /\ UNCHANGED lastTotal
            /\ step' = Step(cmd, 1, FALSE, FALSE)
  /\ NoUpdate
  /\ UNCHANGED <<query, page, pagination, installed, installedBy,
                 installedError, serverConnectionError, initialized,
                 promptBuild, builderAvailable, gates, builds>>

\* A fresh install whose companion check is tracked as a pending action.
InstallFreshTracked(entry) ==
  /\ NeedsGate(entry)
  /\ CanStart(1)
  /\ gates' = Put(gates, nextId,
       [name |-> entry.name, version |-> entry.latest_version,
        entry |-> entry, phase |-> "metadata",
        presented |-> [none |-> TRUE]])
  /\ pendingActions' = Append(pendingActions, nextId)
  /\ nextId' = nextId + 1
  /\ UNCHANGED <<barVars, memVars>>
  /\ UNCHANGED lastTotal
  /\ step' = Step("install", 1, FALSE, FALSE)
  /\ NoUpdate
  /\ UNCHANGED <<query, page, pagination, installed, installedBy,
                 installedError, serverConnectionError, initialized,
                 promptBuild, builderAvailable, posts, builds>>

\* install(entry) of an entry that is not installed: the metadata of the
\* package is fetched for checkCompanionPackages.
InstallFresh(entry) ==
  /\ NeedsGate(entry)
  /\ CanStart(1)
  /\ gates' = Put(gates, nextId,
       [name |-> entry.name, version |-> entry.latest_version,
        entry |-> entry, phase |-> "metadata",
        presented |-> [none |-> TRUE]])
  /\ nextId' = nextId + 1
  /\ UNCHANGED <<barVars, memVars>>
  /\ UNCHANGED lastTotal
  /\ step' = Step("install", 0, FALSE, FALSE)
  /\ NoUpdate
  /\ UNCHANGED <<query, page, pagination, installed, installedBy,
                 installedError, serverConnectionError, initialized,
                 promptBuild, pendingActions, builderAvailable, posts, builds>>

(***************************************************************************)
(* The companion gate: checkCompanionPackages.                             *)
(***************************************************************************)
\* What searcher.fetchPackageData can resolve to: nothing, metadata without
\* a jupyterlab section, without discovery, and discovery sections with and
\* without kernel rules and a server companion.
KernelRule == [kernel_spec |-> [language |-> "python"]]
ServerCompanion == [base |-> [name |-> "srv"]]
Metadata ==
  {[missing |-> TRUE],
   [name |-> "pkg"],
   [name |-> "pkg", jupyterlab |-> [extension |-> TRUE]],
   [name |-> "pkg", jupyterlab |-> [discovery |-> [other |-> TRUE]]],
   [name |-> "pkg", jupyterlab |-> [discovery |-> [kernel |-> <<>>]]],
   [name |-> "pkg", jupyterlab |-> [discovery |-> [kernel |-> <<KernelRule>>]]],
   [name |-> "pkg", jupyterlab |-> [discovery |-> [server |-> ServerCompanion]]],
   [name |-> "pkg", jupyterlab |->
      [discovery |-> [kernel |-> <<KernelRule>>, server |-> ServerCompanion]]]}

\* !data || !data.jupyterlab || !data.jupyterlab.discovery
NoDiscovery(data) ==
  \/ "missing" \in DOMAIN data
  \/ "jupyterlab" \notin DOMAIN data
  \/ "discovery" \notin DOMAIN data.jupyterlab

\* The number of kernel companions: one for each declared kernel rule.
KernelCompanions(discovery) ==
  IF "kernel" \in DOMAIN discovery THEN Len(discovery.kernel) ELSE 0

\* discovery.server of a section that declares no server companion.
NoServer == [undefined |-> TRUE]

\* serviceManager.specs before the kernel specs have been fetched: null.
NoSpecs == [null |-> TRUE]

\* Kernel specs of the server (Kernel.ISpecModel).
KernelPython ==
  [name |-> "python3", language |-> "python", display_name |-> "Python 3"]
KernelIR == [name |-> "ir", language |-> "R", display_name |-> "R"]
KernelJulia ==
  [name |-> "julia-1.0", language |-> "julia", display_name |-> "Julia 1.0"]

\* Values of serviceManager.specs: null, or the specs by key, in key order.
SpecModels ==
  {NoSpecs,
   [kernelspecs |-> <<>>],
   [kernelspecs |-> <<KernelPython>>],
   [kernelspecs |-> <<KernelJulia, KernelIR>>],
   [kernelspecs |-> <<KernelPython, KernelIR, KernelJulia>>]}

\* Kernel rules (IKernelInstallInfo): a pattern for the language, for the
\* display name, for both, or for neither.
RulePython == [kernel_spec |-> [language |-> "python"]]
RuleScala == [kernel_spec |-> [language |-> "scala"]]
RuleJuliaName == [kernel_spec |-> [display_name |-> "Julia"]]
RulePythonOrR ==
  [kernel_spec |-> [language |-> "^pyth", display_name |-> "^R$"]]
RuleNoPattern == [kernel_spec |-> [other |-> TRUE]]
RuleLists ==
  {<<RulePython>>, <<RuleScala>>, <<RuleJuliaName>>, <<RuleNoPattern>>,
   <<RulePythonOrR, RuleScala>>, <<RuleScala, RuleJuliaName, RulePython>>}

\* Metadata that declares kernel rules, with and without a server
\* companion, next to the metadata above.
KernelMetadata ==
  Metadata
  \cup {[name |-> "pkg", jupyterlab |-> [discovery |-> [kernel |-> rules]]] :
          rules \in RuleLists}
  \cup {[name |-> "pkg", jupyterlab |->
           [discovery |-> [kernel |-> <<RuleScala>>,
                           server |-> ServerCompanion]]]}

\* new RegExp(pattern).test(s) for a pattern of literal characters with an
\* optional ^ in front and an optional $ at the end: the literal occurs in
\* s, at the start with ^, at the end with $.
RegExpTest(pattern, s) ==
  LET atStart == SubSeq(pattern, 1, 1) = "^"
      rest == IF atStart THEN SubSeq(pattern, 2, Len(pattern)) ELSE pattern
      atEnd == SubSeq(rest, Len(rest), Len(rest)) = "$"
      literal == IF atEnd THEN SubSeq(rest, 1, Len(rest) - 1) ELSE rest
      n == Len(literal)
  IN \E i \in 1..(Len(s) - n + 1) :
       /\ SubSeq(s, i, i + n - 1) = literal
       /\ atStart => i = 1
       /\ atEnd => i + n - 1 = Len(s)

\* The body of the loop of matchSpecs for one spec: the language pattern
\* is tried first, the display name pattern if that gave no match.
SpecMatches(kernelInfo, spec) ==
  LET hasLang == "language" \in DOMAIN kernelInfo.kernel_spec
      hasName == "display_name" \in DOMAIN kernelInfo.kernel_spec
      byLang == IF hasLang
                  THEN RegExpTest(kernelInfo.kernel_spec.language,
                                  spec.language)
                  ELSE FALSE
  IN IF ~byLang /\ hasName
       THEN RegExpTest(kernelInfo.kernel_spec.display_name,
                       spec.display_name)
       ELSE byLang

\* Private.matchSpecs: no spec when specs is null, otherwise the specs
\* that match, in key order.
RECURSIVE MatchesIn(_, _)
MatchesIn(kernelInfo, kernelspecs) ==
  IF kernelspecs = <<>> THEN <<>>
  ELSE LET n == Len(kernelspecs)
           matches == MatchesIn(kernelInfo, SubSeq(kernelspecs, 1, n - 1))
       IN IF SpecMatches(kernelInfo, kernelspecs[n])
            THEN Append(matches, kernelspecs[n])
            ELSE matches

matchSpecs(kernelInfo, specs) ==
  IF "kernelspecs" \notin DOMAIN specs THEN <<>>
  ELSE MatchesIn(kernelInfo, specs.kernelspecs)

\* The kernel companions: one for each rule, with the specs it matches.
KernelCompanionList(discovery, specs) ==
  IF "kernel" \in DOMAIN discovery
    THEN [i \in 1..Len(discovery.kernel) |->
            [kernelInfo |-> discovery.kernel[i],
             kernels |-> matchSpecs(discovery.kernel[i], specs)]]
    ELSE <<>>

\* Companions that leave out the rules no kernel matches.
CompanionsDroppingEmpty(discovery, specs) ==
  [kernel |-> SelectSeq(KernelCompanionList(discovery, specs),
                        LAMBDA c : c.kernels # <<>>),
   server |-> IF "server" \in DOMAIN discovery THEN discovery.server
              ELSE NoServer]

\* The arguments of presentCompanions: a companion for each kernel rule,
\* and discovery.server.
Companions(discovery, specs) ==
  [kernel |-> KernelCompanionList(discovery, specs),
   server |-> IF "server" \in DOMAIN discovery THEN discovery.server
              ELSE NoServer]

\* A gate that looks at the kernel rules only.
ApprovesWithoutKernels(data) ==
  \/ NoDiscovery(data)
  \/ KernelCompanions(data.jupyterlab.discovery) < 1

\* Whether checkCompanionPackages resolves to true without a dialog.
ApprovesSilently(data) ==
  \/ NoDiscovery(data)
  \/ /\ KernelCompanions(data.jupyterlab.discovery) < 1
     /\ "server" \notin DOMAIN data.jupyterlab.discovery

\* An install that goes on whatever the gate answered.
ProceedsAlways(shouldInstall) == TRUE

\* if (shouldInstall) of install.
Proceeds(shouldInstall) == shouldInstall

\* The gate of id resolved to shouldInstall: the rest of install(entry).
GateResolved(id, shouldInstall) ==
  LET kind == IF shouldInstall THEN "gateApproved" ELSE "gateDeclined" IN
  /\ gates' = Drop(gates, id)
  /\ IF Proceeds(shouldInstall)
       THEN /\ CanStart(1)
            /\ PerformAction(nextId, "install", gates[id].entry, id)
            /\ nextId' = nextId + 1
            /\ UNCHANGED <<barVars, memVars>>
            /\ UNCHANGED lastTotal
            /\ step' = Step(kind, 1, FALSE, FALSE)
       ELSE /\ UNCHANGED <<barVars, memVars>>
            /\ UNCHANGED lastTotal
            /\ step' = Step(kind, 0, FALSE, FALSE)
            /\ UNCHANGED <<posts, pendingActions, nextId>>

\* The metadata of the package arrives (data), or its fetch fails;
\* serviceManager.specs is specs at that moment.
GateMetadataWith(id, fetched, data, specs) ==
  /\ id \in DOMAIN gates
  /\ gates[id].phase = "metadata"
  /\ IF ~fetched
       THEN /\ gates' = Drop(gates, id)
            /\ UNCHANGED <<barVars, memVars>>
            /\ UNCHANGED lastTotal
            /\ step' = Step("gateFailed", 0, FALSE, FALSE)
            /\ UNCHANGED <<posts, pendingActions, nextId>>
       ELSE IF ApprovesSilently(data)
         THEN GateResolved(id, TRUE)
         ELSE /\ gates' = [gates EXCEPT
                          ![id].phase = "dialog",
                          ![id].presented =
                            Companions(data.jupyterlab.discovery, specs)]
              /\ UNCHANGED <<barVars, memVars>>
              /\ UNCHANGED lastTotal
              /\ step' = Step("gatePrompt", 0, FALSE, FALSE)
              /\ UNCHANGED <<posts, pendingActions, nextId>>
  /\ NoUpdate
  /\ UNCHANGED <<query, page, pagination, installed, installedBy,
                 installedError, serverConnectionError, initialized,
                 promptBuild, builderAvailable, builds>>

\* The metadata arrives before the kernel specs of the server are known.
GateMetadata(id, fetched, data) == GateMetadataWith(id, fetched, data, NoSpecs)

\* The user answers the dialog of presentCompanions.
GateDecision(id, decision) ==
  /\ id \in DOMAIN gates
  /\ gates[id].phase = "dialog"
  /\ GateResolved(id, decision)
  /\ NoUpdate
  /\ UNCHANGED <<query, page, pagination, installed, installedBy,
                 installedError, serverConnectionError, initialized,
                 promptBuild, builderAvailable, builds>>

(***************************************************************************)
(* The replies to an action POST.                                          *)
(***************************************************************************)
\* A handler that triggers the build check before it looks at the status
\* of the response, for every response that arrives.
PostResponseCheckingFirst(id, response) ==
  /\ id \in DOMAIN posts
  /\ posts[id].phase = "sent"
  /\ IF response.ok
       THEN /\ posts' = [posts EXCEPT ![id].phase = "body"]
            /\ UNCHANGED serverConnectionError
       ELSE /\ posts' = Drop(posts, id)
            /\ serverConnectionError' = response.reason
  /\ IF ChecksBuild /\ response.reason # NetworkReason
       THEN /\ CanStart(1)
            /\ builds' = BuildCheckStarted(nextId)
            /\ pendingActions' =
                 Append(IF response.ok THEN pendingActions
                        ELSE Remove(pendingActions, id), nextId)
            /\ nextId' = nextId + 1
       ELSE /\ pendingActions' =
                 (IF response.ok THEN pendingActions
                  ELSE Remove(pendingActions, id))
            /\ UNCHANGED <<builds, nextId>>
  /\ step' = Step(IF response.ok THEN "postResponse" ELSE "postFailed",
                  IF response.ok /\ ~ChecksBuild THEN 0 ELSE 1, FALSE, FALSE)
  /\ UNCHANGED <<barVars, memVars>>
  /\ UNCHANGED lastTotal
  /\ NoUpdate
  /\ UNCHANGED <<query, page, pagination, installed, installedBy,
                 installedError, initialized, promptBuild, builderAvailable,
                 gates>>

\* A tracker whose removal is registered for fulfilment only: the handle of
\* a POST that is rejected on arrival stays in the pending set.
PostResponseKeepingRejected(id, response) ==
  /\ id \in DOMAIN posts
  /\ posts[id].phase = "sent"
  /\ IF response.ok
       THEN /\ posts' = [posts EXCEPT ![id].phase = "body"]
            /\ UNCHANGED serverConnectionError
            /\ IF ChecksBuild
                 THEN /\ CanStart(1)
                      /\ builds' = BuildCheckStarted(nextId)
                      /\ pendingActions' = Append(pendingActions, nextId)
                      /\ nextId' = nextId + 1
                      /\ step' = Step("postResponse", 1, FALSE, FALSE)
                 ELSE /\ step' = Step("postResponse", 0, FALSE, FALSE)
                      /\ UNCHANGED <<builds, pendingActions, nextId>>
       ELSE /\ posts' = Drop(posts, id)
            /\ serverConnectionError' = response.reason
            /\ step' = Step("postFailed", 0, FALSE, FALSE)
            /\ UNCHANGED <<builds, pendingActions, nextId>>
  /\ UNCHANGED <<barVars, memVars>>
  /\ UNCHANGED lastTotal
  /\ NoUpdate
  /\ UNCHANGED <<query, page, pagination, installed, installedBy,
                 installedError, initialized, promptBuild, builderAvailable,
                 gates>>

\* The response to the POST of id arrives.  A 2xx response triggers the
\* build check and its body is read; anything else rejects the action.
PostResponse(id, response) ==
  /\ id \in DOMAIN posts
  /\ posts[id].phase = "sent"
  /\ IF response.ok
       THEN /\ posts' = [posts EXCEPT ![id].phase = "body"]
            /\ UNCHANGED serverConnectionError
            /\ IF ChecksBuild
                 THEN /\ CanStart(1)
                      /\ builds' = BuildCheckStarted(nextId)
                      /\ pendingActions' = Append(pendingActions, nextId)
                      /\ nextId' = nextId + 1
                      /\ UNCHANGED <<barVars, memVars>>
                      /\ UNCHANGED lastTotal
                      /\ step' = Step("postResponse", 1, FALSE, FALSE)
                 ELSE /\ UNCHANGED <<barVars, memVars>>
                      /\ UNCHANGED lastTotal
                      /\ step' = Step("postResponse", 0, FALSE, FALSE)
                      /\ UNCHANGED <<builds, pendingActions, nextId>>
       ELSE /\ posts' = Drop(posts, id)
            /\ serverConnectionError' = response.reason
            /\ pendingActions' = Remove(pendingActions, id)
            /\ UNCHANGED <<barVars, memVars>>
            /\ UNCHANGED lastTotal
            /\ step' = Step("postFailed", 1, FALSE, FALSE)
            /\ UNCHANGED <<builds, nextId>>
  /\ NoUpdate
  /\ UNCHANGED <<query, page, pagination, installed, installedBy,
                 installedError, initialized, promptBuild, builderAvailable,
                 gates>>

\* The body of the 2xx reply to the POST of id has been read.  A parsed
\* reply fulfils the action: its handle is removed, install reports a
\* status other than ok, and update() is called.  A body that does not
\* parse rejects it.
PostBody(id, body) ==
  /\ id \in DOMAIN posts
  /\ posts[id].phase = "body"
  /\ posts' = Drop(posts, id)
  /\ pendingActions' = Remove(pendingActions, id)
  /\ IF body.parsed
       THEN /\ CanStart(1)
            /\ serverConnectionError' = Null
            /\ UpdateStart(nextId, "action", FALSE, query, page, pagination)
            /\ nextId' = nextId + 1
            /\ UNCHANGED <<barVars, memVars>>
            /\ UNCHANGED lastTotal
            /\ step' = Step("postFulfilled", 1, FALSE,
                            posts[id].cmd = "install" /\ body.status # "ok")
       ELSE /\ serverConnectionError' = body.reason
            /\ UNCHANGED <<barVars, memVars>>
            /\ UNCHANGED lastTotal
            /\ step' = Step("postFailed", 1, FALSE, FALSE)
            /\ NoUpdate
            /\ UNCHANGED nextId
  /\ UNCHANGED <<query, page, pagination, installed, installedBy,
                 installedError, initialized, promptBuild, builderAvailable,
                 gates, builds>>

(***************************************************************************)
(* The status bar.  The bar is attached to the document, as the tests      *)
(* attach it, so that a widget added to it is attached too.                *)
(***************************************************************************)
\* A registration that replaces the item of a key already registered.
registerStatusItemOverwriting(id, item) ==
  /\ ~isDisposed
  /\ widgets[item] = NewWidget
  /\ statusItems' = Put(statusItems, id, item)
  /\ widgets' = [widgets EXCEPT ![item].isAttached = TRUE]
  /\ disposables' = Append(disposables,
                           [id |-> id, item |-> item, isDisposed |-> FALSE])
  /\ barStep' = BarStep("registerStatusItem", id, item, 0, FALSE, FALSE)
  /\ UNCHANGED isDisposed
  /\ UNCHANGED <<listVars, memVars>>

\* registerStatusItem(id, { item }) with a widget that is in no bar: a key
\* already registered throws before anything is changed; otherwise the
\* widget is stored under the key, added to the bar, and a handle that
\* removes it is returned.
registerStatusItem(id, item) ==
  /\ ~isDisposed
  /\ widgets[item] = NewWidget
  /\ IF id \in DOMAIN statusItems
     THEN /\ barStep' = BarStep("registerStatusItem", id, item, 0, TRUE,
                                FALSE)
          /\ UNCHANGED <<statusItems, widgets, disposables>>
     ELSE /\ statusItems' = Put(statusItems, id, item)
          /\ widgets' = [widgets EXCEPT ![item].isAttached = TRUE]
          /\ disposables' =
               Append(disposables,
                      [id |-> id, item |-> item, isDisposed |-> FALSE])
          /\ barStep' = BarStep("registerStatusItem", id, item, 0, FALSE,
                                FALSE)
  /\ UNCHANGED isDisposed
  /\ UNCHANGED <<listVars, memVars>>

\* The callback of a handle: the key is deleted, the widget is taken out
\* of the bar and disposed.
Unregistered(items, d) == Drop(items, d.id)

Detached(ws, d) ==
  [ws EXCEPT ![d.item] = [isAttached |-> FALSE, isDisposed |-> TRUE]]

\* dispose() of a handle that registerStatusItem returned.  The handle is
\* a DisposableDelegate: its callback runs on the first call only.
disposableDispose(h) ==
  /\ h \in 1..Len(disposables)
  /\ IF disposables[h].isDisposed
     THEN UNCHANGED <<statusItems, widgets, disposables>>
     ELSE /\ statusItems' = Unregistered(statusItems, disposables[h])
          /\ widgets' = Detached(widgets, disposables[h])
          /\ disposables' = [disposables EXCEPT ![h].isDisposed = TRUE]
  /\ barStep' = BarStep("disposableDispose", disposables[h].id,
                        disposables[h].item, h, FALSE, isDisposed)
  /\ UNCHANGED isDisposed
  /\ UNCHANGED <<listVars, memVars>>

\* A dispose() of the bar that leaves the items alone.
disposeBarOnly ==
  /\ isDisposed' = TRUE
  /\ barStep' = BarStep("dispose", "", 0, 0, FALSE, isDisposed)
  /\ UNCHANGED <<statusItems, widgets, disposables>>
  /\ UNCHANGED <<listVars, memVars>>

\* StatusBar.dispose(): the handles of the bar are disposed, each running
\* its callback if it has not run, and the bar is disposed as a widget.
dispose ==
  /\ statusItems' = Empty
  /\ widgets' =
       [w \in Widgets |->
          IF \E h \in 1..Len(disposables) :
               disposables[h].item = w /\ ~disposables[h].isDisposed
          THEN [isAttached |-> FALSE, isDisposed |-> TRUE]
          ELSE widgets[w]]
  /\ disposables' =
       [h \in 1..Len(disposables) |->
          [disposables[h] EXCEPT !.isDisposed = TRUE]]
  /\ isDisposed' = TRUE
  /\ barStep' = BarStep("dispose", "", 0, 0, FALSE, isDisposed)
  /\ UNCHANGED <<listVars, memVars>>

\* The calls of the tests on one status bar, in any order.
NextStatusBar ==
  \/ \E id \in ItemKeys, item \in Widgets : registerStatusItem(id, item)
  \/ \E h \in 1..MaxWidgets : disposableDispose(h)
  \/ dispose

SpecStatusBar == Init /\ [][NextStatusBar]_vars

(***************************************************************************)
(* The memory usage model: MemoryUsage.Model.                              *)
(***************************************************************************)
\* Private.MEMORY_UNIT_LIMITS, up to GB.
UnitLimit(unit) ==
  CASE unit = "B" -> 1
    [] unit = "KB" -> 1024
    [] unit = "MB" -> 1048576
    [] unit = "GB" -> 1073741824

\* Private.convertToLargestUnit for sizes below one TB that are multiples
\* of their unit.
convertToLargestUnit(numBytes) ==
  IF numBytes < UnitLimit("KB") THEN <<numBytes, "B">>
  ELSE IF UnitLimit("KB") = numBytes \/ numBytes < UnitLimit("MB")
    THEN <<numBytes \div UnitLimit("KB"), "KB">>
  ELSE IF UnitLimit("MB") = numBytes \/ numBytes < UnitLimit("GB")
    THEN <<numBytes \div UnitLimit("MB"), "MB">>
  ELSE <<numBytes \div UnitLimit("GB"), "GB">>

\* What the metrics endpoint can report (IMetricRequestResult): rss, and
\* limits.memory.rss under limit, 0 when limits.memory is absent.
MetricValues ==
  {[rss |-> 512, limit |-> 0], [rss |-> 2048, limit |-> 4096]}

\* How a metric request ends: a 2xx response with a value, a response that
\* yields null (not 2xx, or a body that is null), or a failure (of the
\* transport, of the parsing, or a value without limits).
MetricOutcomes ==
  {[kind |-> "value", value |-> v] : v \in MetricValues}
    \cup {[kind |-> k, value |-> [rss |-> 0, limit |-> 0]] :
            k \in {"null", "failed"}}

\* The interval of timer t elapses: its callback calls _makeMetricRequest,
\* which issues a request.
TimerFires(t) ==
  /\ t \in timers
  /\ requests < MaxRequests
  /\ requests' = requests + 1
  /\ memStep' = MemStep("request", 0, modelDisposed)
  /\ UNCHANGED <<timers, intervalId, metricsAvailable, currentMemory,
                 memoryLimit, units, modelDisposed, nextTimer>>
  /\ UNCHANGED <<listVars, barVars>>

\* The fields after a null value or a failure.
MetricsUnavailable ==
  /\ metricsAvailable' = FALSE
  /\ currentMemory' = 0
  /\ memoryLimit' = NoLimit
  /\ units' = "B"
  /\ timers' = timers \ {intervalId}
  /\ UNCHANGED <<intervalId, nextTimer>>

\* _updateMetricsValues(value) with a value that is not null: the fields
\* are set from it, and a new interval timer is set when the metrics were
\* not available before; the timer _intervalId named is not cleared.
_updateMetricsValues(value) ==
  LET converted == convertToLargestUnit(value.rss)
      limit == IF value.limit # 0
                 THEN value.limit \div UnitLimit(converted[2])
                 ELSE NoLimit
  IN /\ metricsAvailable' = TRUE
     /\ currentMemory' = converted[1]
     /\ units' = converted[2]
     /\ memoryLimit' = limit
     /\ IF ~metricsAvailable
          THEN /\ nextTimer <= MaxTimers
               /\ intervalId' = nextTimer
               /\ timers' = timers \cup {nextTimer}
               /\ nextTimer' = nextTimer + 1
          ELSE UNCHANGED <<intervalId, timers, nextTimer>>
     /\ memStep' =
          MemStep("value",
                  IF \/ converted[1] # currentMemory
                     \/ converted[2] # units
                     \/ limit # memoryLimit
                     \/ ~metricsAvailable
                    THEN 1 ELSE 0,
                  modelDisposed)

\* A metric request settles: the reactions of _makeMetricRequest.  A null
\* value goes through _updateMetricsValues(null), a failure through the
\* catch handler; both reset the fields and clear the timer _intervalId
\* names, and differ in when they signal.
MetricResponse(outcome) ==
  /\ requests > 0
  /\ requests' = requests - 1
  /\ CASE outcome.kind = "value" -> _updateMetricsValues(outcome.value)
       [] outcome.kind = "null" ->
            /\ MetricsUnavailable
            /\ memStep' =
                 MemStep("null",
                         IF \/ currentMemory # 0
                            \/ units # "B"
                            \/ memoryLimit # NoLimit
                            \/ metricsAvailable
                           THEN 1 ELSE 0,
                         modelDisposed)
       [] outcome.kind = "failed" ->
            /\ MetricsUnavailable
            /\ memStep' = MemStep("failed",
                                  IF metricsAvailable THEN 1 ELSE 0,
                                  modelDisposed)
  /\ UNCHANGED modelDisposed
  /\ UNCHANGED <<listVars, barVars>>

\* MemoryUsage.Model.dispose(): the model is disposed and the timer
\* _intervalId names is cleared.
ModelDispose ==
  /\ modelDisposed' = TRUE
  /\ timers' = timers \ {intervalId}
  /\ memStep' = MemStep("dispose", 0, FALSE)
  /\ UNCHANGED <<intervalId, metricsAvailable, currentMemory, memoryLimit,
                 units, requests, nextTimer>>
  /\ UNCHANGED <<listVars, barVars>>

\* One memory usage model from its construction on: its timers fire, its
\* requests settle, and it is disposed.
NextMemoryUsage ==
  \/ \E t \in timers : TimerFires(t)
  \/ \E outcome \in MetricOutcomes : MetricResponse(outcome)
  \/ ModelDispose

SpecMemoryUsage == Init /\ [][NextMemoryUsage]_vars

(***************************************************************************)
(* The model.                                                              *)
(***************************************************************************)
Commands == {"install", "uninstall", "enable", "disable"}

Next ==
  \/ \E value \in Queries : SetQuery(value)
  \/ \E value \in Pages : SetPage(value)
  \/ \E value \in Paginations : SetPagination(value)
  \/ Initialize
  \/ RefreshInstalled
  \/ \E id \in DOMAIN passes, reply \in SearchReplies(FewSearchObjects) :
       SearchDone(id, reply)
  \/ \E id \in DOMAIN passes, reply \in InstalledReplies(FewInstalledBodies) :
       InstalledDone(id, reply)
  \/ \E cmd \in Commands, entry \in CallEntries : Act(cmd, entry)
  \/ \E entry \in CallEntries : InstallFresh(entry)
  \/ \E id \in DOMAIN gates, fetched \in BOOLEAN, data \in Metadata :
       GateMetadata(id, fetched, data)
  \/ \E id \in DOMAIN gates, decision \in BOOLEAN : GateDecision(id, decision)
  \/ \E id \in DOMAIN posts, response \in PostResponses :
       PostResponse(id, response)
  \/ \E id \in DOMAIN posts, body \in PostBodies : PostBody(id, body)
  \/ TriggerBuildCheck
  \/ \E id \in DOMAIN builds, status \in BuildStatuses : BuildStatus(id, status)
  \/ \E id \in DOMAIN builds : BuildSettled(id)
  \/ PerformBuild
  \/ IgnoreBuildRecommendation

Spec == Init /\ [][Next]_vars

\* The passes alone, overlapping: the setters, initialize() and
\* refreshInstalled(), and the replies of the two channels.
NextPasses ==
  \/ \E value \in Queries : SetQuery(value)
  \/ \E value \in Pages : SetPage(value)
  \/ \E value \in Paginations : SetPagination(value)
  \/ Initialize
  \/ RefreshInstalled
  \/ \E id \in DOMAIN passes, reply \in SearchReplies(FewSearchObjects) :
       SearchDone(id, reply)
  \/ \E id \in DOMAIN passes, reply \in InstalledReplies(FewInstalledBodies) :
       InstalledDone(id, reply)

SpecPasses == Init /\ [][NextPasses]_vars

\* The tracked tasks alone: install, uninstall, enable and disable with the
\* gate, the build checks and builds, refreshInstalled(), and the passes
\* that follow the actions.  The query is never set here, so that these
\* passes issue no search.
NextActions ==
  \/ \E cmd \in Commands, entry \in CallEntries : Act(cmd, entry)
  \/ \E entry \in CallEntries : InstallFresh(entry)
  \/ \E id \in DOMAIN gates, fetched \in BOOLEAN, data \in Metadata :
       GateMetadata(id, fetched, data)
  \/ \E id \in DOMAIN gates, decision \in BOOLEAN : GateDecision(id, decision)
  \/ \E id \in DOMAIN posts, response \in PostResponses :
       PostResponse(id, response)
  \/ \E id \in DOMAIN posts, body \in PostBodies : PostBody(id, body)
  \/ TriggerBuildCheck
  \/ \E id \in DOMAIN builds, status \in BuildStatuses : BuildStatus(id, status)
  \/ \E id \in DOMAIN builds : BuildSettled(id)
  \/ PerformBuild
  \/ IgnoreBuildRecommendation
  \/ RefreshInstalled
  \/ \E id \in DOMAIN passes, reply \in InstalledReplies(FewInstalledBodies) :
       InstalledDone(id, reply)

SpecActions == Init /\ [][NextActions]_vars

\* The first pass, over every reply of the two channels: the views a pass
\* publishes as a function of what the channels delivered.
NextPass ==
  \/ nextId = 1 /\ (\E value \in Queries : SetQuery(value))
  \/ nextId = 1 /\ Initialize
  \/ nextId = 1 /\ RefreshInstalled
  \/ \E id \in DOMAIN passes, reply \in SearchReplies(SearchObjects) :
       SearchDone(id, reply)
  \/ \E id \in DOMAIN passes, reply \in InstalledReplies(InstalledBodies) :
       InstalledDone(id, reply)

SpecPass == Init /\ [][NextPass]_vars

\* The three channels that write an error slot: the setter of the query
\* with the registry search, the installed query of its pass and of the
\* pass that follows an action, and the POST of an action (uninstall, here
\* without the replies of the builder).
NextErrors ==
  \/ \E value \in Queries : SetQuery(value)
  \/ \E id \in DOMAIN passes, reply \in SearchReplies(FewSearchObjects) :
       SearchDone(id, reply)
  \/ \E id \in DOMAIN passes, reply \in InstalledReplies(FewInstalledBodies) :
       InstalledDone(id, reply)
  \/ \E entry \in CallEntries : Act("uninstall", entry)
  \/ \E id \in DOMAIN posts, response \in PostResponses :
       PostResponse(id, response)
  \/ \E id \in DOMAIN posts, body \in PostBodies : PostBody(id, body)

SpecErrors == Init /\ [][NextErrors]_vars

\* The first pass of a search, over every record the wire type of the
\* installed-extension endpoint allows.
NextEntries ==
  \/ nextId = 1 /\ (\E value \in Queries : SetQuery(value))
  \/ \E id \in DOMAIN passes, reply \in SearchReplies(FewSearchObjects) :
       SearchDone(id, reply)
  \/ \E id \in DOMAIN passes, reply \in InstalledReplies(WireBodies) :
       InstalledDone(id, reply)

SpecEntries == Init /\ [][NextEntries]_vars

\* The four callers of update(): a setter, initialize(),
\* refreshInstalled() and an action that was fulfilled (uninstall, here
\* without the replies of the builder).
NextOrigins ==
  \/ \E value \in Queries : SetQuery(value)
  \/ Initialize
  \/ RefreshInstalled
  \/ \E id \in DOMAIN passes, reply \in SearchReplies(FewSearchObjects) :
       SearchDone(id, reply)
  \/ \E id \in DOMAIN passes, reply \in InstalledReplies(FewInstalledBodies) :
       InstalledDone(id, reply)
  \/ \E entry \in CallEntries : Act("uninstall", entry)
  \/ \E id \in DOMAIN posts, response \in PostResponses :
       PostResponse(id, response)
  \/ \E id \in DOMAIN posts, body \in PostBodies : PostBody(id, body)

SpecOrigins == Init /\ [][NextOrigins]_vars

\* Passes one after another: the query is set only while no pass is in
\* flight.
NextSequential ==
  \/ passes = Empty /\ (\E value \in Queries : SetQuery(value))
  \/ \E id \in DOMAIN passes, reply \in SearchReplies(FewSearchObjects) :
       SearchDone(id, reply)
  \/ \E id \in DOMAIN passes, reply \in InstalledReplies(FewInstalledBodies) :
       InstalledDone(id, reply)

SpecSequential == Init /\ [][NextSequential]_vars

\* The actions that need no gate with every outcome of their POSTs, the
\* build checks they trigger, and the passes that follow them.
NextBuildChecks ==
  \/ \E cmd \in Commands, entry \in CallEntries : Act(cmd, entry)
  \/ \E id \in DOMAIN posts, response \in PostOutcomes :
       PostResponse(id, response)
  \/ \E id \in DOMAIN posts, body \in PostBodies : PostBody(id, body)
  \/ \E id \in DOMAIN builds, status \in BuildStatuses : BuildStatus(id, status)
  \/ \E id \in DOMAIN builds : BuildSettled(id)
  \/ TriggerBuildCheck
  \/ \E id \in DOMAIN passes, reply \in InstalledReplies(FewInstalledBodies) :
       InstalledDone(id, reply)

SpecBuildChecks == Init /\ [][NextBuildChecks]_vars

\* Passes that overlap, started by the setters, initialize() and
\* refreshInstalled(), with both channels answering: the requests of a
\* pass against the setters called while it is in flight.
NextSetters ==
  \/ \E value \in Queries : SetQuery(value)
  \/ \E value \in Pages : SetPage(value)
  \/ \E value \in Paginations : SetPagination(value)
  \/ Initialize
  \/ RefreshInstalled
  \/ \E id \in DOMAIN passes, reply \in SearchReplies(FewSearchObjects) :
       reply.kind = "ok" /\ SearchDone(id, reply)
  \/ \E id \in DOMAIN passes, reply \in InstalledReplies(FewInstalledBodies) :
       reply.kind = "ok" /\ InstalledDone(id, reply)

SpecSetters == Init /\ [][NextSetters]_vars

\* Every kind of work the model starts, tracked or not, with the replies
\* that let it go on: passes of the query setter and of initialize(),
\* refreshInstalled(), the gate of a fresh install, the actions with their
\* POSTs and follow-up passes, build checks and builds.
NextTracking ==
  \/ \E value \in Queries : SetQuery(value)
  \/ Initialize
  \/ RefreshInstalled
  \/ \E id \in DOMAIN passes, reply \in SearchReplies(FewSearchObjects) :
       reply.kind = "ok" /\ SearchDone(id, reply)
  \/ \E id \in DOMAIN passes, reply \in InstalledReplies(FewInstalledBodies) :
       reply.kind = "ok" /\ InstalledDone(id, reply)
  \/ \E entry \in CallEntries : Act("uninstall", entry)
  \/ \E entry \in CallEntries : InstallFresh(entry)
  \/ \E id \in DOMAIN gates, fetched \in BOOLEAN :
       GateMetadata(id, fetched,
                    [name |-> "pkg",
                     jupyterlab |-> [discovery |-> [server |-> ServerCompanion]]])
  \/ \E id \in DOMAIN gates, decision \in BOOLEAN : GateDecision(id, decision)
  \/ \E id \in DOMAIN posts, response \in PostResponses :
       PostResponse(id, response)
  \/ \E id \in DOMAIN posts, body \in PostBodies : PostBody(id, body)
  \/ TriggerBuildCheck
  \/ \E id \in DOMAIN builds, status \in BuildStatuses : BuildStatus(id, status)
  \/ \E id \in DOMAIN builds : BuildSettled(id)
  \/ PerformBuild

SpecTracking == Init /\ [][NextTracking]_vars

\* The tracked tasks with every way they settle: POSTs answered, rejected
\* on arrival or on their body, build checks with each status, builds, and
\* refreshInstalled() passes.
\* The body the server answers a refreshInstalled() pass with here.
SettlingBodies == {<<WireA>>}

Settles ==
  \/ \E id \in DOMAIN posts, response \in PostOutcomes :
       PostResponse(id, response)
  \/ \E id \in DOMAIN posts, body \in PostBodies : PostBody(id, body)
  \/ \E id \in DOMAIN builds, status \in BuildStatuses : BuildStatus(id, status)
  \/ \E id \in DOMAIN builds : BuildSettled(id)
  \/ \E id \in DOMAIN passes, reply \in InstalledReplies(SettlingBodies) :
       InstalledDone(id, reply)

NextSettling ==
  \/ \E entry \in CallEntries : Act("uninstall", entry)
  \/ TriggerBuildCheck
  \/ PerformBuild
  \/ RefreshInstalled
  \/ Settles

\* A request in flight is answered at some time, one way or another: while
\* a response, a body, a status, a build or the answer to a GET is
\* outstanding, one of them arrives.
SettlingFairness == WF_vars(Settles)

SpecSettling == Init /\ [][NextSettling]_vars /\ SettlingFairness

\* Passes one after another over answers in which a has an update, x has
\* none and y is not installed.
UpdateObjects == {<<PkgA>>, <<PkgB, PkgA>>}
UpdateBodies == {<<WireA>>, <<WireX, WireA>>, <<WireY, WireX>>}

NextUpdates ==
  \/ passes = Empty /\ (\E value \in Queries : SetQuery(value))
  \/ \E id \in DOMAIN passes,
        reply \in SearchReplies(UpdateObjects) :
       SearchDone(id, reply)
  \/ \E id \in DOMAIN passes,
        reply \in InstalledReplies(UpdateBodies) :
       InstalledDone(id, reply)

SpecUpdates == Init /\ [][NextUpdates]_vars

\* One fresh install of a package of the registry and its companion gate,
\* over the kernel rules and the kernel specs above.
NextCompanions ==
  \/ nextId = 1 /\ (\E pkg \in SearchPkgs : InstallFresh(SearchEntry(pkg)))
  \/ \E id \in DOMAIN gates, fetched \in BOOLEAN, data \in KernelMetadata,
        specs \in SpecModels :
       GateMetadataWith(id, fetched, data, specs)
  \/ \E id \in DOMAIN gates, decision \in BOOLEAN : GateDecision(id, decision)

SpecCompanions == Init /\ [][NextCompanions]_vars

(***************************************************************************)
(* Properties.                                                             *)
(***************************************************************************)
\* The position of the key name in the map m (0 when it is no key).
Pos(m, name) ==
  IF MapHas(m, name) THEN CHOOSE i \in 1..Len(m) : m[i].name = name ELSE 0

\* The last turn published the views of a pass.
JustPublished ==
  /\ step.kind \in {"searchDone", "installedDone"}
  /\ step.emitted > 0

\* Both views are as the pass that completed last wrote them.
ViewsOfPublished ==
  /\ published.id # 0
  /\ installedBy = published.id
  /\ searchResultBy = published.id

\* The handles of the tasks that have started and have not settled: action
\* POSTs, build checks and builds, and refreshInstalled() passes.
TrackedInFlight ==
  DOMAIN posts \cup DOMAIN builds
    \cup {id \in DOMAIN passes : passes[id].origin = "refreshInstalled"}

\* C1: when a pass has published, every package that is a key of both its
\* search map and its installed map is shown in searchResult, exactly once,
\* by the entry of the installed map (equal to it in every field) and not
\* by the entry translated from the registry.
C1_InstalledEntryWins ==
  ViewsOfPublished =>
    \A name \in Keys(published.searchMap) \cap Keys(published.installedMap) :
      /\ Cardinality({i \in 1..Len(searchResult) :
                        searchResult[i].name = name}) = 1
      /\ \A i \in 1..Len(searchResult) :
           searchResult[i].name = name =>
             /\ searchResult[i] = MapGet(published.installedMap, name)
             /\ searchResult[i] # MapGet(published.searchMap, name)

\* A pass has published a package that both channels know, and the two
\* channels disagree about it.
C1_Witness ==
  /\ ViewsOfPublished
  /\ NameA \in Keys(published.searchMap) \cap Keys(published.installedMap)
  /\ MapGet(published.searchMap, NameA).installed_version
       # MapGet(published.installedMap, NameA).installed_version
  /\ Len(searchResult) = 2

\* C2: installed and searchResult are at every state the views of one pass:
\* whenever the two were written by different passes, searchResult is
\* still what the pass that wrote installed published.
C2_ViewsOfOnePass ==
  installedBy # searchResultBy =>
    /\ installedBy = published.id
    /\ searchResult = SearchView(published.searchMap, published.installedMap)

\* C3: the turn in which an action request completes, by success or by
\* failure, starts a reconciliation pass.
C3_PassAfterEveryAction ==
  [][step'.kind \in {"postFulfilled", "postFailed"} =>
       DOMAIN passes' \ DOMAIN passes # {}]_vars

\* C4: an install POST for an entry that is not installed is issued only in
\* the turn in which its companion gate resolves to true, and no POST is
\* issued by the install call itself, nor when the gate shows its dialog,
\* resolves to false or fails; an install POST for an installed entry is
\* issued by the install call, which starts no gate.
C4_GateBeforeFreshInstall ==
  [][/\ \A id \in DOMAIN posts' \ DOMAIN posts :
          posts'[id].cmd = "install" =>
            IF posts'[id].installed
              THEN /\ step'.kind = "install"
                   /\ posts'[id].gate = 0
                   /\ gates' = gates
              ELSE /\ step'.kind = "gateApproved"
                   /\ posts'[id].gate \in DOMAIN gates \ DOMAIN gates'
     /\ step'.kind \in {"gatePrompt", "gateDeclined", "gateFailed"} =>
          posts' = posts
     /\ (step'.kind = "install" /\ gates' # gates) => posts' = posts
     /\ \A id \in DOMAIN gates' \ DOMAIN gates : ~gates'[id].entry.installed
    ]_vars

\* The gate of a fresh install has approved and its POST is in flight.
C4_Witness ==
  /\ step.kind = "gateApproved"
  /\ \E id \in DOMAIN posts :
       /\ posts[id].cmd = "install"
       /\ ~posts[id].installed
       /\ posts[id].gate # 0

\* C5: while a tracked task is in flight (an action POST from the moment it
\* is sent, whether for a fresh install, an upgrade, an uninstall, an enable
\* or a disable; a build; a build check; a refreshInstalled() pass),
\* hasPendingActions() is true.
C5_PendingWhileInFlight == TrackedInFlight # {} => hasPendingActions

\* Two tracked tasks were in flight, one has settled, and the other one is
\* a POST whose response has arrived and whose body is being read.
C5_Witness ==
  /\ step.kind \in {"buildSettled", "buildStatus", "postFailed",
                    "installedDone"}
  /\ step.emitted > 0
  /\ \E id \in DOMAIN posts : posts[id].phase = "body"
  /\ Len(pendingActions) = 1

\* C6: uninstall of an entry that is not installed, enable of an enabled
\* entry and disable of an entry that is not enabled throw to the caller
\* and change nothing: no POST, no pending action, no notification, no pass
\* and no field of the model.  Nothing else throws.
C6_PreconditionErrors ==
  [][/\ \A entry \in CallEntries :
          (\/ ~entry.installed /\ Act("uninstall", entry)
           \/ entry.enabled /\ Act("enable", entry)
           \/ ~entry.enabled /\ Act("disable", entry))
            => /\ step'.raised
               /\ step'.emitted = 0
               /\ UNCHANGED <<modelFields, inFlight>>
     /\ step'.raised =>
          /\ step'.kind \in {"uninstall", "enable", "disable"}
          /\ step'.emitted = 0
          /\ UNCHANGED <<modelFields, inFlight>>
    ]_vars

\* uninstall has thrown while a POST was in flight.
C6_Witness ==
  /\ step.raised
  /\ step.kind = "uninstall"
  /\ posts # Empty
  /\ hasPendingActions

\* C7: the turn in which the installed query settles leaves searchError as
\* it was, and the turn in which the registry search settles leaves
\* installedError and serverConnectionError as they were.
C7_ErrorIsolation ==
  [][/\ step'.kind = "installedDone" => searchError' = searchError
     /\ step'.kind = "searchDone" =>
          /\ installedError' = installedError
          /\ serverConnectionError' = serverConnectionError
    ]_vars

\* The search has just settled, and the errors of the installed query are
\* still there.
C7_Witness ==
  /\ step.kind = "searchDone"
  /\ installedError # Null
  /\ serverConnectionError # Null

\* C8: a pass started by a setter while query is null issues no search and,
\* when it has completed (query being null still), searchResult is empty,
\* totalEntries is 0 and searchError is null.
C8_NullQueryPass ==
  /\ \A id \in DOMAIN passes :
       passes[id].query = Null => passes[id].search = "skipped"
  /\ (/\ JustPublished
      /\ published.origin = "setter"
      /\ published.query = Null
      /\ query = Null)
       => /\ searchResult = <<>>
          /\ totalEntries = 0
          /\ searchError = Null

\* No entry outside the trusted organisations comes before one inside.
TrustedFirst(view) ==
  \A i, j \in 1..Len(view) :
    (i < j /\ isJupyterOrg(view[j].name)) => isJupyterOrg(view[i].name)

\* C9: in installed and in searchResult every entry of the trusted
\* organisations comes before every other entry.
C9_TrustedFirst == TrustedFirst(installed) /\ TrustedFirst(searchResult)

\* A pass has published both views, and each channel delivered a package
\* outside the trusted organisations before one inside.
C9_Witness ==
  /\ ViewsOfPublished
  /\ ~TrustedFirst(published.installedMap)
  /\ ~TrustedFirst(published.searchMap)
  /\ Len(installed) = 2
  /\ Len(searchResult) = 2

\* The entries of view that are in the same trust class are in the key
\* order of map.
KeepsKeyOrder(view, map) ==
  \A i, j \in 1..Len(view) :
    (i < j /\ isJupyterOrg(view[i].name) = isJupyterOrg(view[j].name))
      => Pos(map, view[i].name) < Pos(map, view[j].name)

\* C10: in the views a pass has published, two entries of the same trust
\* class are in the order of the keys of the pass's map (the installed map
\* for installed, the search map for searchResult), whatever their names.
C10_StableWithinClass ==
  ViewsOfPublished =>
    /\ KeepsKeyOrder(installed, published.installedMap)
    /\ KeepsKeyOrder(searchResult, published.searchMap)

\* A pass has published two entries of one trust class that its channel
\* delivered against the order of their names, in both views.
C10_Witness ==
  /\ ViewsOfPublished
  /\ Len(installed) = 2
  /\ ~isJupyterOrg(installed[1].name) /\ ~isJupyterOrg(installed[2].name)
  /\ NameRank(installed[1].name) > NameRank(installed[2].name)
  /\ Len(searchResult) = 2
  /\ isJupyterOrg(searchResult[1].name) /\ isJupyterOrg(searchResult[2].name)
  /\ NameRank(searchResult[1].name) > NameRank(searchResult[2].name)

\* C11: when a pass has published, no package of the registry's reply whose
\* keyword list contains "deprecated" has an entry in searchResult or in the
\* search map of the pass, whether or not the installed map of the pass has
\* an entry of the same name.
C11_DeprecatedDropped ==
  ViewsOfPublished =>
    \A i \in 1..Len(published.objects) :
      Contains(published.objects[i].keywords, "deprecated") =>
        /\ ~MapHas(published.searchMap, published.objects[i].name)
        /\ \A j \in 1..Len(searchResult) :
             searchResult[j].name # published.objects[i].name

\* A pass has published whose registry reply held the deprecated package y
\* next to others, while the server lists a package y as well.
C11_Witness ==
  /\ ViewsOfPublished
  /\ Contains(published.objects, PkgY)
  /\ Contains(PkgY.keywords, "deprecated")
  /\ MapHas(published.installedMap, NameY)
  /\ Contains(installed, InstalledEntry(WireY))
  /\ Len(searchResult) = 2

\* The handles in the list of pending actions.
Handles(pending) == {pending[i] : i \in 1..Len(pending)}

\* C12: the stateChanged signals of a turn are one for each handle pushed
\* to or removed from the pending actions, one for the reaction of
\* initialize(), and exactly one for the pass that publishes its views in
\* that turn: a pass signals nothing in the turn that starts it nor in the
\* turn in which the first of its two replies arrives, whether its channels
\* succeed or fail and whether query is null.  A pass publishes in the turn
\* in which the last of its replies arrives, and only then.
C12_OneNotificationPerPass ==
  [][LET publishes == published'.id # published.id
         leaving == DOMAIN passes \ DOMAIN passes'
     IN /\ step'.emitted =
             (IF publishes THEN 1 ELSE 0)
             + (IF publishes /\ published'.origin = "initialize" THEN 1 ELSE 0)
             + Cardinality(Handles(pendingActions') \ Handles(pendingActions))
             + Cardinality(Handles(pendingActions) \ Handles(pendingActions'))
        /\ publishes <=> leaving # {}
        /\ publishes => leaving = {published'.id}
        /\ publishes <=>
             (/\ installedBy' = published'.id
              /\ <<installed', searchResult', installedBy'>>
                   # <<installed, searchResult, installedBy>>
              /\ installedBy' # installedBy)
    ]_vars

\* A pass started by a setter has published with a single signal after both
\* of its channels failed.
C12_Witness ==
  /\ JustPublished
  /\ step.emitted = 1
  /\ published.origin = "setter"
  /\ published.query # Null
  /\ searchError # Null
  /\ installedError # Null
  /\ serverConnectionError # Null

\* C13: the turn in which an installed query settles leaves installedError
\* null if the query succeeded and non-null if it failed; the turn in which
\* a registry search settles does the same to searchError; the turn in
\* which a request of the model to the local server settles (the GET of
\* the installed extensions, the POST of an action) does the same to
\* serverConnectionError.  No other turn writes these slots, except that a
\* pass started with a null query clears searchError.
C13_ErrorSlotsFollowChannels ==
  [][/\ step'.kind = "installedDone" =>
          \A id \in DOMAIN passes :
            \A reply \in InstalledReplies(FewInstalledBodies) :
              InstalledDone(id, reply) =>
                /\ installedError' = Null <=> reply.kind = "ok"
                /\ serverConnectionError' = Null <=> reply.kind # "http"
     /\ step'.kind = "searchDone" =>
          \A id \in DOMAIN passes :
            \A reply \in SearchReplies(FewSearchObjects) :
              SearchDone(id, reply) =>
                (searchError' = Null <=> reply.kind = "ok")
     /\ step'.kind = "postFailed" =>
          \A id \in DOMAIN posts :
            /\ \A response \in PostResponses :
                 PostResponse(id, response) =>
                   (~response.ok /\ serverConnectionError' # Null)
            /\ \A body \in PostBodies :
                 PostBody(id, body) =>
                   (~body.parsed /\ serverConnectionError' # Null)
     /\ step'.kind = "postFulfilled" =>
          \A id \in DOMAIN posts :
            \A body \in PostBodies :
              PostBody(id, body) =>
                (body.parsed /\ serverConnectionError' = Null)
     /\ step'.kind = "postResponse" =>
          serverConnectionError' = serverConnectionError
     /\ installedError' # installedError => step'.kind = "installedDone"
     /\ serverConnectionError' # serverConnectionError =>
          step'.kind \in {"installedDone", "postFailed", "postFulfilled"}
     /\ searchError' # searchError =>
          \/ step'.kind = "searchDone"
          \/ /\ searchError' = Null
             /\ \E id \in DOMAIN passes' \ DOMAIN passes :
                  passes'[id].query = Null
    ]_vars

\* The installed query of a pass has succeeded while an action was in
\* flight: both of its slots are null, and the error of the pass's search
\* stays.
C13_Witness ==
  /\ step.kind = "installedDone"
  /\ posts # Empty
  /\ installedError = Null
  /\ serverConnectionError = Null
  /\ searchError # Null

\* An entry that is not installed has no installed version and is not
\* enabled.
EntryInvariant(e) ==
  ~e.installed => (e.installed_version = "" /\ ~e.enabled)

\* C14: every entry of installed and of searchResult satisfies the entry
\* invariant, whatever the registry and the server answered.
C14_EntryInvariant ==
  /\ \A i \in 1..Len(installed) : EntryInvariant(installed[i])
  /\ \A i \in 1..Len(searchResult) : EntryInvariant(searchResult[i])

\* C15: an assignment to query, page or pagination stores the value and
\* starts exactly one new pass, which reads the query state as it is after
\* the assignment and sends the GET of the installed extensions (and the
\* search, unless query is null); the passes already in flight go on as
\* they were.  This holds whether or not the value differs from the
\* current one and whether or not passes are in flight.
C15_SettersStartPass ==
  [][/\ \A value \in Queries : SetQuery(value) => query' = value
     /\ \A value \in Pages : SetPage(value) => page' = value
     /\ \A value \in Paginations : SetPagination(value) => pagination' = value
     /\ step'.kind \in {"setQuery", "setPage", "setPagination"} =>
          /\ Cardinality(DOMAIN passes' \ DOMAIN passes) = 1
          /\ \A id \in DOMAIN passes' \ DOMAIN passes :
               /\ passes'[id].query = query'
               /\ passes'[id].page = page'
               /\ passes'[id].pagination = pagination'
               /\ passes'[id].installedQuery = "sent"
               /\ passes'[id].search =
                    (IF query' = Null THEN "skipped" ELSE "sent")
          /\ \A id \in DOMAIN passes :
               id \in DOMAIN passes' /\ passes'[id] = passes[id]
    ]_vars

\* page has been assigned the value it had while a pass with that value
\* was in flight: two passes with the same query state are in flight.
C15_Witness ==
  /\ step.kind = "setPage"
  /\ DOMAIN passes = {1, 2}
  /\ passes[1].origin = "setter"
  /\ passes[1].page = page
  /\ passes[2].page = page
  /\ passes[1].query = passes[2].query
  /\ passes[1].pagination = passes[2].pagination

\* The last turn completed a pass that initialize() had started.
InitializeSettles ==
  /\ published'.id # published.id
  /\ published'.origin = "initialize"

\* C16: a call of initialize() starts one pass, does not throw, and leaves
\* initialized as it is.  The turn in which that pass completes, whatever
\* its two channels delivered, sets initialized to true and emits two
\* signals: the one of the pass and the one of initialize().  initialized
\* is false as long as no such pass has completed, changes in no other
\* turn, and never goes from true to false.
C16_InitializedOnce ==
  [][/\ step'.kind = "initialize" =>
          /\ ~step'.raised
          /\ step'.emitted = 0
          /\ initialized' = initialized
          /\ Cardinality(DOMAIN passes' \ DOMAIN passes) = 1
          /\ \A id \in DOMAIN passes' \ DOMAIN passes :
               passes'[id].origin = "initialize"
     /\ InitializeSettles =>
          /\ initialized'
          /\ step'.emitted = 2
          /\ ~step'.raised
     /\ initialized' # initialized => (InitializeSettles /\ initialized')
     /\ (\A id \in DOMAIN passes : passes[id].origin # "initialize")
          => (initialized' = initialized)
    ]_vars

\* The pass of initialize() has completed with both channels failed, and
\* the model is initialized.
C16_Witness ==
  /\ JustPublished
  /\ published.origin = "initialize"
  /\ published.query # Null
  /\ searchError # Null
  /\ installedError # Null
  /\ initialized
  /\ step.emitted = 2

\* The metadata for which the gate is to approve without a dialog:
\* nothing, no jupyterlab.discovery section, or a section with no kernel
\* rule and no server companion.
DeclaresNoCompanion(data) ==
  \/ "missing" \in DOMAIN data
  \/ "jupyterlab" \notin DOMAIN data
  \/ "discovery" \notin DOMAIN data.jupyterlab
  \/ /\ \/ "kernel" \notin DOMAIN data.jupyterlab.discovery
        \/ data.jupyterlab.discovery.kernel = <<>>
     /\ "server" \notin DOMAIN data.jupyterlab.discovery

\* C17: when the metadata of the package arrives, checkCompanionPackages
\* resolves to true in that turn, with no dialog, if the metadata is
\* absent, has no jupyterlab.discovery section, or declares no kernel rule
\* and no server companion.  For any other metadata it resolves nothing in
\* that turn and opens the dialog with one kernel companion for each
\* declared rule and the declared server companion; it then resolves to
\* the answer of the user, true or false.
C17_CompanionGate ==
  [][\A id \in DOMAIN gates :
       /\ \A data \in Metadata :
            GateMetadata(id, TRUE, data) =>
              IF DeclaresNoCompanion(data)
                THEN /\ step'.kind = "gateApproved"
                     /\ id \notin DOMAIN gates'
                ELSE /\ step'.kind = "gatePrompt"
                     /\ id \in DOMAIN gates'
                     /\ gates'[id].phase = "dialog"
                     /\ LET discovery == data.jupyterlab.discovery
                            shown == gates'[id].presented
                        IN /\ Len(shown.kernel) =
                                (IF "kernel" \in DOMAIN discovery
                                   THEN Len(discovery.kernel) ELSE 0)
                           /\ \A i \in 1..Len(shown.kernel) :
                                shown.kernel[i].kernelInfo = discovery.kernel[i]
                           /\ shown.server =
                                (IF "server" \in DOMAIN discovery
                                   THEN discovery.server ELSE NoServer)
       /\ \A decision \in BOOLEAN :
            GateDecision(id, decision) =>
              /\ gates[id].phase = "dialog"
              /\ id \notin DOMAIN gates'
              /\ step'.kind =
                   (IF decision THEN "gateApproved" ELSE "gateDeclined")
    ]_vars

\* The dialog is open for a package that declares a server companion and
\* no kernel rule.
C17_Witness ==
  /\ step.kind = "gatePrompt"
  /\ \E id \in DOMAIN gates :
       /\ gates[id].phase = "dialog"
       /\ gates[id].presented.kernel = <<>>
       /\ gates[id].presented.server = ServerCompanion

\* C18: triggerBuildCheck() called while the builder is unavailable or
\* promptBuild is true, by a caller or by the reaction to a 2xx response of
\* an action POST, queries no build status, adds no pending action, emits
\* no signal and leaves promptBuild and every other field as they are.
C18_BuildCheckNoOp ==
  [][(~builderAvailable \/ promptBuild) =>
       /\ step'.kind = "triggerBuildCheck" =>
            /\ step'.emitted = 0
            /\ ~step'.raised
            /\ UNCHANGED <<modelFields, inFlight>>
       /\ step'.kind = "postResponse" =>
            /\ step'.emitted = 0
            /\ UNCHANGED <<modelFields, builds, nextId>>
    ]_vars

\* triggerBuildCheck() has been called with the builder available and the
\* prompt up, while an action was in flight: no check was started.
C18_Witness ==
  /\ step.kind = "triggerBuildCheck"
  /\ step.emitted = 0
  /\ builderAvailable
  /\ promptBuild
  /\ builds = Empty
  /\ posts # Empty

\* C19: when the status of a build check arrives: "building" issues the
\* build within the check, which stays in flight and pending, with no
\* prompt and no signal; "needed" leaves promptBuild true, with a signal
\* for it exactly if it was false, and settles the check; any other reply
\* leaves promptBuild as it is and settles the check.  A check that settles
\* is removed from the pending actions with one signal, and every check
\* and every build in flight is among the pending actions.
C19_BuildCheckReplies ==
  [][/\ \A id \in DOMAIN builds :
          /\ Contains(pendingActions, id)
          /\ \A status \in BuildStatuses :
               (BuildStatus(id, status) /\ builds[id].kind = "check") =>
                 /\ UNCHANGED <<query, page, pagination, totalEntries,
                                installed, searchResult, installedError,
                                searchError, serverConnectionError,
                                initialized, passes, posts, gates>>
                 /\ IF status = "building"
                      THEN /\ id \in DOMAIN builds'
                           /\ builds'[id].kind = "check"
                           /\ builds'[id].phase = "building"
                           /\ promptBuild' = promptBuild
                           /\ pendingActions' = pendingActions
                           /\ step'.emitted = 0
                      ELSE /\ id \notin DOMAIN builds'
                           /\ ~Contains(pendingActions', id)
                           /\ Len(pendingActions') = Len(pendingActions) - 1
                           /\ IF status = "needed"
                                THEN /\ promptBuild'
                                     /\ step'.emitted =
                                          (IF promptBuild THEN 1 ELSE 2)
                                ELSE /\ promptBuild' = promptBuild
                                     /\ step'.emitted = 1
     /\ \A id \in DOMAIN builds :
          (BuildSettled(id) /\ builds[id].kind = "check") =>
            /\ id \notin DOMAIN builds'
            /\ ~Contains(pendingActions', id)
            /\ promptBuild' = promptBuild
            /\ step'.emitted = 1
    ]_vars

\* A check has found a build in progress and has joined it: it is still
\* pending, and the prompt is down.
C19_Witness ==
  /\ step.kind = "buildStatus"
  /\ ~promptBuild
  /\ \E id \in DOMAIN builds :
       /\ builds[id].kind = "check"
       /\ builds[id].phase = "building"
       /\ Contains(pendingActions, id)

\* C20: performBuild() leaves promptBuild false, with a signal for the
\* clear exactly if it was true, and issues one build, whose handle it
\* appends to the pending actions with a signal; it does so whatever the
\* prompt is and whatever is in flight (in the model: as long as a task can
\* start).  The build stays among the pending actions until it settles,
\* and is removed from them when it does.
C20_PerformBuild ==
  [][/\ CanStart(1) => ENABLED PerformBuild
     /\ step'.kind = "performBuild" =>
          /\ ~promptBuild'
          /\ ~step'.raised
          /\ step'.emitted = (IF promptBuild THEN 2 ELSE 1)
          /\ DOMAIN builds' \ DOMAIN builds = {nextId}
          /\ builds'[nextId] = [kind |-> "build", phase |-> "building"]
          /\ \A id \in DOMAIN builds : builds'[id] = builds[id]
          /\ pendingActions' = Append(pendingActions, nextId)
     /\ \A id \in DOMAIN builds :
          /\ builds[id].kind = "build" => Contains(pendingActions, id)
          /\ (BuildSettled(id) /\ builds[id].kind = "build") =>
               /\ id \notin DOMAIN builds'
               /\ ~Contains(pendingActions', id)
               /\ Len(pendingActions') = Len(pendingActions) - 1
     /\ \A id \in DOMAIN builds \cap DOMAIN builds' :
          builds[id].kind = "build" => Contains(pendingActions', id)
    ]_vars

\* performBuild() has been called with the prompt up: the prompt is down
\* and the build is pending.
C20_Witness ==
  /\ step.kind = "performBuild"
  /\ step.emitted = 2
  /\ ~promptBuild
  /\ \E id \in DOMAIN builds :
       /\ builds[id].kind = "build"
       /\ Contains(pendingActions, id)

\* C21: ignoreBuildRecommendation() leaves promptBuild false, emits one
\* signal if promptBuild was true and none otherwise, does not throw, and
\* changes nothing else: no build, no build check and no other request is
\* started, the pending actions and every other field stay as they are.
C21_IgnoreBuildRecommendation ==
  [][step'.kind = "ignoreBuildRecommendation" =>
       /\ ~promptBuild'
       /\ step'.emitted = (IF promptBuild THEN 1 ELSE 0)
       /\ ~step'.raised
       /\ UNCHANGED <<query, page, pagination, totalEntries, installed,
                      searchResult, installedError, searchError,
                      serverConnectionError, initialized, pendingActions,
                      builderAvailable, inFlight>>
    ]_vars

\* The recommendation has been ignored while an action was in flight: the
\* prompt is down, and the action is all that is pending.
C21_Witness ==
  /\ step.kind = "ignoreBuildRecommendation"
  /\ step.emitted = 1
  /\ ~promptBuild
  /\ builds = Empty
  /\ posts # Empty
  /\ Len(pendingActions) = 1

\* C22: refreshInstalled() starts exactly one pass, whose GET of the
\* installed extensions carries refresh=1, and appends its handle to the
\* pending actions with a signal; the handle stays there as long as the
\* pass is in flight and is removed in the turn the pass publishes.  A pass
\* started by a setter, by initialize() or after an action sends the GET
\* without the parameter and is never among the pending actions.
C22_RefreshInstalled ==
  [][/\ step'.kind = "refreshInstalled" =>
          /\ DOMAIN passes' \ DOMAIN passes = {nextId}
          /\ passes'[nextId].origin = "refreshInstalled"
          /\ passes'[nextId].installedQuery = "sent"
          /\ pendingActions' = Append(pendingActions, nextId)
          /\ step'.emitted = 1
     /\ \A id \in DOMAIN passes' :
          IF passes'[id].origin = "refreshInstalled"
            THEN /\ passes'[id].url = "/lab/api/extensions?refresh=1"
                 /\ Contains(pendingActions', id)
            ELSE /\ passes'[id].origin \in {"setter", "initialize", "action"}
                 /\ passes'[id].url = "/lab/api/extensions"
                 /\ ~Contains(pendingActions', id)
     /\ \A id \in DOMAIN passes \ DOMAIN passes' :
          /\ published'.id = id
          /\ ~Contains(pendingActions', id)
          /\ Len(pendingActions') =
               Len(pendingActions)
                 - (IF passes[id].origin = "refreshInstalled" THEN 1 ELSE 0)
    ]_vars

\* A pass of refreshInstalled() and a pass of a setter or of initialize()
\* are in flight together: the first is pending and carries the flag, the
\* second is not and does not.
C22_Witness ==
  \E id, other \in DOMAIN passes :
    /\ passes[id].origin = "refreshInstalled"
    /\ passes[id].url = "/lab/api/extensions?refresh=1"
    /\ pendingActions = <<id>>
    /\ passes[other].origin \in {"setter", "initialize"}
    /\ passes[other].url = "/lab/api/extensions"

\* C23: the turn in which an action fails, whatever its command, calls the
\* error report and sends no further POST: a POST answered outside 2xx, a
\* 2xx answer whose body does not parse, or a parsed answer whose status
\* is not "ok".
C23_FailuresReported ==
  [][\A id \in DOMAIN posts :
       /\ \A response \in PostResponses :
            (PostResponse(id, response) /\ ~response.ok) =>
              (step'.reported /\ DOMAIN posts' \subseteq DOMAIN posts)
       /\ \A body \in PostBodies :
            (PostBody(id, body) /\ (~body.parsed \/ body.status # "ok")) =>
              (step'.reported /\ DOMAIN posts' \subseteq DOMAIN posts)
    ]_vars

\* How often the handle h is in the list of pending actions.
Count(pending, h) == Cardinality({i \in 1..Len(pending) : pending[i] = h})

\* C24: at every state the pending actions are exactly the handles of the
\* tracked tasks that were added and have not settled, each once, so that
\* their number is the number of tasks added minus the number settled and
\* hasPendingActions() is true exactly if such a task exists.  The removal
\* of any of these handles takes out that handle and leaves every other
\* one; were the handle added a second time, its two removals would take
\* out both occurrences and again leave every other handle.
C24_PendingAccounting ==
  /\ hasPendingActions <=> TrackedInFlight # {}
  /\ Handles(pendingActions) = TrackedInFlight
  /\ Len(pendingActions) = Cardinality(TrackedInFlight)
  /\ Cardinality(TrackedInFlight) <= nextId - 1
  /\ \A id \in Handles(pendingActions) :
       LET once == Remove(pendingActions, id)
           added == Append(pendingActions, id)
           twice == Remove(Remove(added, id), id)
       IN /\ Len(once) = Len(pendingActions) - 1
          /\ Len(twice) = Len(added) - 2
          /\ \A h \in Handles(pendingActions) :
               /\ Count(once, h) = (IF h = id THEN 0 ELSE 1)
               /\ Count(Remove(added, id), h) = 1
               /\ Count(twice, h) = (IF h = id THEN 0 ELSE 1)

\* Two tracked tasks were pending and the one added first has settled: the
\* handle of the other one is what is left.
C24_Witness ==
  /\ step.kind \in {"postFailed", "buildSettled", "buildStatus",
                    "installedDone"}
  /\ step.emitted > 0
  /\ pendingActions = <<2>>
  /\ TrackedInFlight = {2}

\* The handles of the tracked tasks that settle in a turn.
Settling == TrackedInFlight \ TrackedInFlight'

\* C25: the turn that starts a tracked task appends its handle to the
\* pending actions and emits a signal for it, while the task is in flight;
\* the turn in which a tracked task settles, a POST answered outside 2xx or
\* with a body that parses or not, a build or a check that ends either way,
\* a pass of refreshInstalled(), removes its handle and emits one signal
\* for it.  A turn emits one signal for each handle it adds and one for
\* each it removes, next to those for a pass that publishes and for
\* promptBuild changing.
C25_TrackerNotifies ==
  [][LET added == TrackedInFlight' \ TrackedInFlight
     IN /\ \A id \in added :
             /\ Contains(pendingActions', id)
             /\ ~Contains(pendingActions, id)
             /\ step'.emitted >= 1
        /\ \A id \in Settling :
             /\ Contains(pendingActions, id)
             /\ ~Contains(pendingActions', id)
             /\ step'.emitted >= 1
        /\ Handles(pendingActions') =
             (Handles(pendingActions) \ Settling) \cup added
        /\ step'.emitted =
             Cardinality(added) + Cardinality(Settling)
             + (IF published'.id # published.id THEN 1 ELSE 0)
             + (IF promptBuild' # promptBuild THEN 1 ELSE 0)
    ]_vars

\* An action has failed while a build was pending: its handle is gone,
\* with one signal, and the handle of the build is left.
C25_Witness ==
  /\ step.kind = "postFailed"
  /\ step.emitted = 1
  /\ Len(pendingActions) = 1
  /\ builds # Empty
  /\ posts = Empty

\* The widgets the bar holds under some key.
Registered(items) == {items[id] : id \in DOMAIN items}

C27_DisposeCascades ==
  [][/\ barStep'.op = "dispose" =>
          /\ isDisposed'
          /\ \A w \in Registered(statusItems) : widgets'[w].isDisposed
          /\ Registered(statusItems') = {}
          /\ \A w \in Widgets \ Registered(statusItems) :
               widgets'[w] = widgets[w]
          /\ barStep'.wasDisposed =>
               /\ statusItems' = statusItems
               /\ widgets' = widgets
               /\ disposables' = disposables
     /\ isDisposed => isDisposed'
     /\ isDisposed' =>
          \A h \in 1..Len(disposables') :
            widgets'[disposables'[h].item].isDisposed
     /\ barStep'.op = "disposableDispose" =>
          LET item == barStep'.item
          IN /\ item \notin Registered(statusItems')
             /\ ~widgets'[item].isAttached
             /\ widgets'[item].isDisposed
             /\ Registered(statusItems') = Registered(statusItems) \ {item}
             /\ \A id \in DOMAIN statusItems :
                  statusItems[id] # item =>
                    /\ id \in DOMAIN statusItems'
                    /\ statusItems'[id] = statusItems[id]
             /\ \A w \in Widgets \ {item} : widgets'[w] = widgets[w]
             /\ isDisposed' = isDisposed
    ]_vars

\* The bar has been disposed a second time, after it held two widgets of
\* three: the two are disposed, the third was never registered.
C27_Witness ==
  /\ barStep.op = "dispose"
  /\ barStep.wasDisposed
  /\ isDisposed
  /\ Len(disposables) = 2
  /\ \A h \in 1..2 : widgets[disposables[h].item].isDisposed
  /\ \E w \in Widgets : widgets[w] = NewWidget

\* C28: passes overlap and none is discarded.  Whenever a pass leaves the
\* passes in flight it has published: installed and searchResult are the
\* views of its own two maps, whatever pass has published before it, also
\* one that was started later; and when the reply to its search is what
\* completes it, totalEntries is the total of that reply (in the replies
\* of the model, one more than the objects of the page).  The witness is
\* the run of the claim: pass 1 is started for a query, pass 2 for the null
\* query, pass 2 publishes, and then the search of pass 1 is answered and
\* pass 1 completes: both views and totalEntries are those of pass 1 while
\* query is null.
C28_NoPassDiscarded ==
  [][\A id \in DOMAIN passes \ DOMAIN passes' :
          /\ published'.id = id
          /\ published'.query = passes[id].query
          /\ installedBy' = id
          /\ searchResultBy' = id
          /\ installed' = InstalledView(published'.installedMap)
          /\ searchResult' =
               SearchView(published'.searchMap, published'.installedMap)
          /\ (step'.kind = "searchDone" /\ published'.objects # <<>>)
               => totalEntries' = Len(published'.objects) + 1
    ]_vars

\* Pass 1 has completed after pass 2, which was started after it.
C28_Witness ==
  /\ step.kind = "searchDone"
  /\ nextId = 3
  /\ passes = Empty
  /\ published.id = 1
  /\ published.origin = "setter"
  /\ published.query = "lab"
  /\ query = Null
  /\ installedBy = 1
  /\ searchResultBy = 1
  /\ installed # <<>>
  /\ searchResult # <<>>
  /\ totalEntries > 0

\* C29: a channel that fails does not end the pass.  The replies over no
\* body and no page are the failures of a channel.  The turn in which the
\* installed query fails sets installedError to the reason, the turn in
\* which the search fails sets searchError, neither throws, and the pass
\* goes on with an empty map for that channel.  A pass completes in the
\* turn its second channel settles, whatever failed, without throwing and
\* with a signal; the pass of this specification being the only one,
\* the error slots tell what failed in it: with installedError set,
\* installed is empty and searchResult is the sorted search map; with
\* searchError set, searchResult is empty and installed is the sorted
\* installed map; with both set, both are empty.
C29_FailureNeverAborts ==
  [][/\ step'.kind = "installedDone" =>
          \A id \in DOMAIN passes, reply \in InstalledReplies({}) :
            InstalledDone(id, reply) =>
              /\ installedError' = reply.reason
              /\ ~step'.raised
              /\ id \in DOMAIN passes' =>
                   /\ passes'[id].installedQuery = "done"
                   /\ passes'[id].installedMap = <<>>
              /\ id \notin DOMAIN passes' => published'.installedMap = <<>>
     /\ step'.kind = "searchDone" =>
          \A id \in DOMAIN passes, reply \in SearchReplies({}) :
            SearchDone(id, reply) =>
              /\ searchError' = reply.reason
              /\ ~step'.raised
              /\ id \in DOMAIN passes' =>
                   /\ passes'[id].search = "done"
                   /\ passes'[id].searchMap = <<>>
              /\ id \notin DOMAIN passes' => published'.searchMap = <<>>
     /\ \A id \in DOMAIN passes' :
          \/ passes'[id].search = "sent"
          \/ passes'[id].installedQuery = "sent"
     /\ \A id \in DOMAIN passes \ DOMAIN passes' :
          /\ published'.id = id
          /\ ~step'.raised
          /\ step'.emitted >= 1
          /\ installedError' # Null =>
               /\ installed' = <<>>
               /\ searchResult' = Sort(published'.searchMap)
          /\ searchError' # Null =>
               /\ searchResult' = <<>>
               /\ installed' = Sort(published'.installedMap)
          /\ (installedError' # Null /\ searchError' # Null) =>
               (installed' = <<>> /\ searchResult' = <<>>)
    ]_vars

\* A pass has completed whose installed query failed while its search
\* delivered two packages: they are the search result, installed is empty.
C29_Witness ==
  /\ JustPublished
  /\ passes = Empty
  /\ installedError # Null
  /\ searchError = Null
  /\ installed = <<>>
  /\ Len(published.searchMap) = 2
  /\ Len(searchResult) = 2

\* C30: a reply outside 2xx (the server answering 500 Internal Server
\* Error) fails the request with the status and the status text, and its
\* body is not read.  For the GET of the installed extensions the turn of
\* the reply records the failure in serverConnectionError and leaves the
\* pass an empty installed map; for the POST of an action the turn of the
\* reply records it, takes the action out of the requests in flight
\* without a turn for its body, and neither checks the build status nor
\* starts a pass.  A POST waits for its body after a 2xx reply only.
C30_Non2xxFails ==
  [][/\ step'.kind = "installedDone" =>
          \A id \in DOMAIN passes, reply \in InstalledReplies({}) :
            (reply.kind = "http" /\ InstalledDone(id, reply)) =>
              /\ serverConnectionError' = "Error: 500 (Internal Server Error)"
              /\ id \in DOMAIN passes' => passes'[id].installedMap = <<>>
              /\ id \notin DOMAIN passes' => installed' = <<>>
     /\ \A id \in DOMAIN posts :
          (posts[id].phase = "sent" /\ id \notin DOMAIN posts') =>
            /\ step'.kind = "postFailed"
            /\ serverConnectionError' = "Error: 500 (Internal Server Error)"
            /\ builds' = builds
            /\ passes' = passes
     /\ \A id \in DOMAIN posts' :
          (posts'[id].phase = "body" /\ posts[id].phase = "sent") =>
            /\ step'.kind = "postResponse"
            /\ serverConnectionError' = serverConnectionError
    ]_vars

\* The server has answered the POST of an action with 500: the failure is
\* in serverConnectionError and the action is no longer in flight.
C30_Witness ==
  /\ step.kind = "postFailed"
  /\ serverConnectionError = "Error: 500 (Internal Server Error)"
  /\ posts = Empty
  /\ pendingActions = <<>>

Names(view) == {view[i].name : i \in 1..Len(view)}

UniqueNames(view) == Len(view) = Cardinality(Names(view))

\* C32: in the views a pass has published no name occurs twice; the names
\* of installed are the keys of the installed map of the pass, the names
\* of searchResult are the keys of its search map, which are the names of
\* the packages the registry delivered without the keyword deprecated; a
\* package of the installed map that the search did not deliver is not in
\* searchResult.
C32_UniqueNames ==
  ViewsOfPublished =>
    /\ UniqueNames(installed)
    /\ UniqueNames(searchResult)
    /\ Names(installed) = Names(published.installedMap)
    /\ Len(installed) = Cardinality(Names(published.installedMap))
    /\ Names(searchResult) = Names(published.searchMap)
    /\ Names(searchResult) =
         {published.objects[i].name :
            i \in {j \in 1..Len(published.objects) :
                     ~Contains(published.objects[j].keywords, "deprecated")}}
    /\ \A i \in 1..Len(searchResult) :
         searchResult[i].name \notin
           Names(published.installedMap) \ Names(published.objects)

\* A pass has published whose registry reply named a package twice, and
\* whose installed map holds a package the search delivered and one it
\* did not.
C32_Witness ==
  /\ ViewsOfPublished
  /\ Len(published.objects) = 3
  /\ Len(searchResult) = 2
  /\ Names(published.installedMap) \ Names(searchResult) # {}
  /\ Names(published.installedMap) \cap Names(searchResult) # {}
  /\ \A i \in 1..3 : ~Contains(published.objects[i].keywords, "deprecated")

\* The specs a rule is to match: those whose language its language pattern
\* matches or whose display name its display name pattern matches.
Matching(kernelInfo, specs) ==
  IF "kernelspecs" \notin DOMAIN specs THEN <<>>
  ELSE SelectSeq(specs.kernelspecs,
         LAMBDA spec :
           \/ /\ "language" \in DOMAIN kernelInfo.kernel_spec
              /\ RegExpTest(kernelInfo.kernel_spec.language, spec.language)
           \/ /\ "display_name" \in DOMAIN kernelInfo.kernel_spec
              /\ RegExpTest(kernelInfo.kernel_spec.display_name,
                            spec.display_name))

\* C33: when the metadata declares kernel rules, the dialog is opened in
\* the turn the metadata arrives, whatever the kernel specs, and it is
\* given one kernel companion for each rule, in the order of the rules:
\* the rule, and the specs whose language or display name the rule
\* matches, none when no spec matches or when there are no specs.
C33_KernelCompanions ==
  [][\A id \in DOMAIN gates :
       \A data \in KernelMetadata, specs \in SpecModels :
         (/\ gates[id].phase = "metadata"
          /\ GateMetadataWith(id, TRUE, data, specs)
          /\ ~NoDiscovery(data)
          /\ KernelCompanions(data.jupyterlab.discovery) >= 1) =>
           LET rules == data.jupyterlab.discovery.kernel
               shown == gates'[id].presented.kernel
           IN /\ step'.kind = "gatePrompt"
              /\ id \in DOMAIN gates'
              /\ gates'[id].phase = "dialog"
              /\ posts' = posts
              /\ Len(shown) = Len(rules)
              /\ \A i \in 1..Len(rules) :
                   /\ shown[i].kernelInfo = rules[i]
                   /\ shown[i].kernels = Matching(rules[i], specs)
                   /\ "kernelspecs" \notin DOMAIN specs =>
                        shown[i].kernels = <<>>
    ]_vars

\* The dialog is open with two companions: the first rule matches the
\* python kernel by its language and the R kernel by its display name,
\* the second matches no kernel.
C33_Witness ==
  /\ step.kind = "gatePrompt"
  /\ \E id \in DOMAIN gates :
       /\ gates[id].phase = "dialog"
       /\ gates[id].presented.kernel =
            <<[kernelInfo |-> RulePythonOrR,
               kernels |-> <<KernelPython, KernelIR>>],
              [kernelInfo |-> RuleScala, kernels |-> <<>>]>>

\* The elements of a sequence.
Range(seq) == {seq[i] : i \in 1..Len(seq)}

\* The pairs of versions of the packages above of which the first is
\* lower, and further entries entryHasUpdate can be given, with the
\* versions where the order of numbers and the order of strings differ.
Lower ==
  {<<"1.0.0", "2.0.0">>, <<"1.0.0", "3.0.0">>, <<"2.0.0", "3.0.0">>,
   <<"1.9.0", "1.10.0">>, <<"1.0.9", "1.0.10">>, <<"9.0.0", "10.0.0">>}

UpdateCases ==
  {[InstalledEntry(WireA) EXCEPT !.installed_version = v[1],
                                 !.latest_version = v[2]] :
     v \in {<<"1.9.0", "1.10.0">>, <<"1.10.0", "1.9.0">>,
            <<"9.0.0", "10.0.0">>, <<"1.0.10", "1.0.9">>,
            <<"1.10.0", "1.10.0">>, <<"1.0.0", "">>}}
  \cup {[InstalledEntry(WireA) EXCEPT !.installed = FALSE,
                                      !.installed_version = "1.9.0",
                                      !.latest_version = "1.10.0"]}

\* C34: for the entries of both views and for the entries above,
\* entryHasUpdate returns, and returns true exactly for an installed entry
\* with a latest version whose installed version is lower; it is false
\* for every entry that is not installed.  The pass whose search map is a
\* at 2.0.0 and whose installed map is a, installed at 1.0.0, publishes
\* the installed entry of a in both views, and entryHasUpdate is true of
\* it.
C34_EntryHasUpdate ==
  /\ \A e \in UpdateCases \cup Range(installed) \cup Range(searchResult) :
       /\ ~entryHasUpdateThrows(e)
       /\ entryHasUpdate(e) <=>
            /\ e.installed
            /\ e.latest_version # ""
            /\ <<e.installed_version, e.latest_version>> \in Lower
       /\ ~e.installed => ~entryHasUpdate(e)
  /\ (/\ ViewsOfPublished
      /\ published.objects = <<PkgA>>
      /\ Names(published.installedMap) = {NameA})
       => /\ Len(installed) = 1
          /\ installed[1].name = NameA
          /\ installed[1].installed
          /\ installed[1].installed_version = "1.0.0"
          /\ installed[1].latest_version = "2.0.0"
          /\ searchResult = installed
          /\ entryHasUpdate(installed[1])

\* The pass of the scenario has published.
C34_Witness ==
  /\ ViewsOfPublished
  /\ published.objects = <<PkgA>>
  /\ published.searchMap = <<SearchEntry(PkgA)>>
  /\ published.installedMap = <<InstalledEntry(WireA)>>
  /\ searchResult = <<InstalledEntry(WireA)>>
  /\ entryHasUpdate(searchResult[1])

\* The build checks the step starts.
NewChecks ==
  {b \in DOMAIN builds' \ DOMAIN builds : builds'[b].kind = "check"}

\* C35: triggerBuildCheck() runs exactly once per action POST whose
\* response is 2xx, in the turn the response arrives and with the body
\* still unread: that turn starts one tracked build check when the builder
\* is available and no prompt is up, and none otherwise.  The turn that
\* reads the body starts no check and stops none, whatever the status of
\* the reply, and the response of a POST arrives once.  A POST that is
\* rejected on arrival, by a status that is not 2xx or a failure of the
\* transport, starts no check.
C35_BuildCheckPerResponse ==
  [][\A id \in DOMAIN posts :
       /\ (/\ posts[id].phase = "sent"
           /\ id \in DOMAIN posts'
           /\ posts'[id].phase = "body")
            => /\ Cardinality(NewChecks) =
                    (IF builderAvailable /\ ~promptBuild THEN 1 ELSE 0)
               /\ \A b \in NewChecks :
                    /\ builds'[b].phase = "status"
                    /\ Contains(pendingActions', b)
               /\ Contains(pendingActions', id)
       /\ (posts[id].phase = "sent" /\ id \notin DOMAIN posts')
            => /\ NewChecks = {}
               /\ builds' = builds
               /\ serverConnectionError' # Null
       /\ posts[id].phase = "body"
            => /\ id \notin DOMAIN posts' \/ posts'[id] = posts[id]
               /\ id \notin DOMAIN posts' => builds' = builds]_vars

\* A 2xx response has arrived and started a check, and the body of the
\* reply is still to be read.
C35_Witness ==
  /\ step.kind = "postResponse"
  /\ \E id \in DOMAIN posts : posts[id].phase = "body"
  /\ \E b \in DOMAIN builds :
       /\ builds[b].kind = "check"
       /\ builds[b].phase = "status"
       /\ Contains(pendingActions, b)

\* C36: the pass a step starts holds the query, page and pagination the
\* model holds when the step ends (the setter has assigned its value before
\* it calls update()), has issued its search exactly when that query is not
\* null, and has issued its installed query in the same step.  No step
\* changes the requests of a pass in flight, setters included, and a pass
\* publishes under its own query the views of the maps it received itself.
C36_RequestsOfTrigger ==
  [][/\ \A id \in DOMAIN passes' \ DOMAIN passes :
          /\ passes'[id].query = query'
          /\ passes'[id].page = page'
          /\ passes'[id].pagination = pagination'
          /\ passes'[id].search = (IF query' = Null THEN "skipped" ELSE "sent")
          /\ passes'[id].installedQuery = "sent"
     /\ \A id \in DOMAIN passes \cap DOMAIN passes' :
          /\ passes'[id].query = passes[id].query
          /\ passes'[id].page = passes[id].page
          /\ passes'[id].pagination = passes[id].pagination
          /\ passes'[id].url = passes[id].url
          /\ passes'[id].search = "skipped" <=> passes[id].search = "skipped"
          /\ (query' # query \/ page' # page \/ pagination' # pagination)
               => passes'[id] = passes[id]
     /\ \A id \in DOMAIN passes \ DOMAIN passes' :
          /\ published'.id = id
          /\ published'.query = passes[id].query
          /\ passes[id].search = "skipped" => published'.searchMap = <<>>
          /\ passes[id].search = "done"
               => published'.searchMap = passes[id].searchMap
          /\ passes[id].installedQuery = "done"
               => published'.installedMap = passes[id].installedMap
          /\ installed' = InstalledView(published'.installedMap)
          /\ searchResult' =
               SearchView(published'.searchMap, published'.installedMap)]_vars

\* A pass triggered with the query "lab" has published the answer to its
\* search although the query was set to null while it was in flight.
C36_Witness ==
  /\ JustPublished
  /\ published.query = "lab"
  /\ published.searchMap # <<>>
  /\ query = Null
  /\ searchResult # <<>>
  /\ \E id \in DOMAIN passes : id > published.id /\ passes[id].query = Null

\* C37: the turn in which the gate of a fresh install answers false, or in
\* which its metadata fetch fails, ends the install: it issues no POST,
\* tracks nothing, starts no build check, no build and no pass, emits no
\* notification, and leaves installed, searchResult, totalEntries,
\* promptBuild and the three error slots as they were.
C37_DeclinedInstall ==
  [][\A id \in DOMAIN gates :
       (\/ GateDecision(id, FALSE)
        \/ GateMetadata(id, FALSE, [missing |-> TRUE]))
         => /\ id \notin DOMAIN gates'
            /\ posts' = posts
            /\ pendingActions' = pendingActions
            /\ builds' = builds
            /\ passes' = passes
            /\ nextId' = nextId
            /\ step'.emitted = 0
            /\ installed' = installed
            /\ searchResult' = searchResult
            /\ totalEntries' = totalEntries
            /\ promptBuild' = promptBuild
            /\ installedError' = installedError
            /\ searchError' = searchError
            /\ serverConnectionError' = serverConnectionError]_vars

\* The user has declined the companions of a fresh install while the model
\* shows installed packages: the gate is gone and nothing is in flight for
\* it.
C37_Witness ==
  /\ step.kind = "gateDeclined"
  /\ installed # <<>>
  /\ \A p \in DOMAIN posts : posts[p].gate = 0

\* The refreshInstalled() passes in flight.
RefreshPasses ==
  {id \in DOMAIN passes : passes[id].origin = "refreshInstalled"}

\* Every handle of the pending set is the one of an action POST, a build
\* check, a build or a refreshInstalled() pass in flight; no gate and no
\* other pass is tracked, and the set is empty when only those are left.
OnlyTracked ==
  /\ Handles(pendingActions) \subseteq
       DOMAIN posts \cup DOMAIN builds \cup RefreshPasses
  /\ \A id \in DOMAIN gates : ~Contains(pendingActions, id)
  /\ \A id \in DOMAIN passes \ RefreshPasses : ~Contains(pendingActions, id)
  /\ (DOMAIN posts = {} /\ DOMAIN builds = {} /\ RefreshPasses = {})
       => ~hasPendingActions

\* C38: after every step the pending set holds handles of action POSTs,
\* build checks, builds and refreshInstalled() passes only, so that
\* hasPendingActions() is false while gates and other passes alone are in
\* flight.  The step that opens the gate of a fresh install, and the step
\* in which a setter or initialize() starts a pass, leave the pending set
\* as it was; the step that starts the pass that follows an action has
\* taken the handle of that action out of the set.
C38_OnlyTrackedKinds ==
  [][/\ OnlyTracked'
     /\ \A id \in DOMAIN gates' \ DOMAIN gates :
          pendingActions' = pendingActions
     /\ \A id \in DOMAIN passes' \ DOMAIN passes :
          /\ passes'[id].origin \in {"setter", "initialize"}
               => pendingActions' = pendingActions
          /\ passes'[id].origin = "action"
               => \E p \in DOMAIN posts \ DOMAIN posts' :
                    /\ Contains(pendingActions, p)
                    /\ ~Contains(pendingActions', p)
                    /\ Len(pendingActions') = Len(pendingActions) - 1]_vars

\* An action has been fulfilled and its follow-up pass is in flight, alone:
\* nothing is pending.
C38_Witness ==
  /\ step.kind = "postFulfilled"
  /\ \E id \in DOMAIN passes : passes[id].origin = "action"
  /\ DOMAIN posts = {}
  /\ DOMAIN builds = {}
  /\ ~hasPendingActions

\* C39: when every tracked task settles at some time, by fulfilment or by
\* rejection, and tasks stop being added (the model starts MaxTasks of
\* them at most), the pending set is empty from some moment on and
\* hasPendingActions() is false ever after.
C39_EventuallyIdle == <>[](pendingActions = <<>> /\ ~hasPendingActions)

\* A POST has been rejected on arrival after other tracked work, and
\* nothing is pending any more.
C39_Witness ==
  /\ step.kind = "postFailed"
  /\ serverConnectionError # Null
  /\ nextId > MaxTasks
  /\ TrackedInFlight = {}
  /\ pendingActions = <<>>

\* C40: a memory usage model has at most one interval timer set at a time,
\* the one _intervalId names; once it is disposed no timer is set, and no
\* metric request is issued.
C40_OneTimer ==
  /\ Cardinality(timers) <= 1
  /\ timers \subseteq {intervalId}
  /\ modelDisposed => timers = {}
  /\ ~(memStep.kind = "request" /\ memStep.afterDispose)

====
